---- MODULE Spec2Model ----
(***************************************************************************)
(* HttpToMqtt: HTTP routes (Api), the JSON database (DataManager) and the  *)
(* MQTT ack correlation (Mqtt.publish_with_ack and the inbound callbacks). *)
(*                                                                         *)
(* Granularity.  Route handlers run on worker threads, the MQTT callbacks  *)
(* on the client's loop thread, and no lock is taken anywhere.  A handler  *)
(* is modelled as the atomic sections between the points where it waits    *)
(* for the device: validation up to the publish, the busy wait of          *)
(* publish_with_ack (the membership test and the removal are two steps),   *)
(* and the commit.  A callback is one atomic step.                         *)
(***************************************************************************)
EXTENDS Integers, Sequences, FiniteSets, TLC

\* ---------------------------------------------------------------- bounds
MaxShelfNumber == 2
MaxPositionId == 1
MaxLed == 2
MaxAckId == 1
MaxQueue == 2
MaxNet == 2
NumThreads == 2

\* ------------------------------------------------------ program constants
BYTE_MAX == 255
TIMEOUT == 5
HTTP_200_OK == 200
HTTP_400_BAD_REQUEST == 400
HTTP_404_NOT_FOUND == 404
HTTP_406_NOT_ACCEPTABLE == 406
HTTP_500_INTERNAL_SERVER_ERROR == 500
HTTP_504_GATEWAY_TIMEOUT == 504

\* ------------------------------------------------------------ value sets
Macs == {"m1", "m2"}
ShelfNumbers == 1..MaxShelfNumber
PositionIds == 0..MaxPositionId
AckIds == 0..MaxAckId
\* identities of Shelf objects: besides the Shelf with a number that is in the
\* database, each worker thread may hold one that has left it
Oids == 1..(MaxShelfNumber * (NumThreads + 1))
Threads == 1..NumThreads
Classes == {"light_ack", "config_ack"}

None == 0           \* Python None for object references and indices
NoObj == [none |-> TRUE]
NoReq == [op |-> "none"]
NoResp == [status_code |-> 0, msg |-> "none"]

\* ------------------------------------------------------- sequence helpers
Range(s) == {s[i] : i \in DOMAIN s}

RemoveAt(s, i) == SubSeq(s, 1, i - 1) \o SubSeq(s, i + 1, Len(s))

\* index of the first element of s that satisfies Test, 0 when there is none
FirstIndex(s, Test(_)) ==
    IF \E i \in DOMAIN s : Test(s[i])
    THEN CHOOSE i \in DOMAIN s : Test(s[i]) /\ \A j \in 1..(i - 1) : ~Test(s[j])
    ELSE 0

\* ------------------------------------------------------------------ Types
ShelfPosition(n, p, leds) == [ShelfNumber |-> n, PositionId |-> p, LEDs |-> leds]
Shelf(n, mac, positions) == [ShelfNumber |-> n, Mac_Address |-> mac, Positions |-> positions]
ESP32(mac, used, online) == [Mac_Address |-> mac, isUsed |-> used, isOnline |-> online]
ACK(mac, id) == [Mac_Address |-> mac, ACK_id |-> id]

\* ------------------------------------------------------------ DataManager
\* A DataManager value S is [ESP32s, Shelves, heap, disk, backup]: Shelves is
\* the list of Shelf objects (object identities), heap gives each object's
\* fields, disk and backup are the two JSON files.

\* DB.json(): the snapshot by value, object identities gone
Snapshot(S) ==
    [Shelves |-> [i \in DOMAIN S.Shelves |-> S.heap[S.Shelves[i]]],
     ESP32s |-> S.ESP32s]

save_data(S) == [S EXCEPT !.disk = Snapshot(S)]

save_backup_data(S) == [S EXCEPT !.backup = Snapshot(S)]

EmptyDB ==
    [ESP32s |-> <<>>, Shelves |-> <<>>, heap |-> [o \in Oids |-> NoObj],
     disk |-> NoObj, backup |-> NoObj]

\* DataManager.__init__ when the JSON file does not exist
DataManagerInit == save_backup_data(save_data(EmptyDB))

\* DB.parse_file: the objects of a snapshot, a new Shelf object per entry
parse_file(file) ==
    LET oid(i) == (file.Shelves[i].ShelfNumber - 1) * (NumThreads + 1) + 1
    IN  [ESP32s |-> file.ESP32s,
         Shelves |-> [i \in DOMAIN file.Shelves |-> oid(i)],
         heap |-> [o \in Oids |->
                      IF \E i \in DOMAIN file.Shelves : oid(i) = o
                      THEN file.Shelves[CHOOSE i \in DOMAIN file.Shelves : oid(i) = o]
                      ELSE NoObj],
         disk |-> file, backup |-> NoObj]

\* a start-up that keeps the isOnline flags of the file
keep_esp32s_online(S) == S

set_all_esp32s_offline(S) ==
    [S EXCEPT !.ESP32s = [i \in DOMAIN S.ESP32s |-> [S.ESP32s[i] EXCEPT !.isOnline = FALSE]]]

\* DataManager.__init__ when the JSON file exists
DataManagerLoad(file) ==
    save_backup_data(save_data(set_all_esp32s_offline(parse_file(file))))

\* the Shelf objects of the database, in list order

shelf_exists(S, shelf_number) ==
    \E i \in DOMAIN S.Shelves : S.heap[S.Shelves[i]].ShelfNumber = shelf_number

shelf_exists_by_mac_address(S, mac_address) ==
    \E i \in DOMAIN S.Shelves : S.heap[S.Shelves[i]].Mac_Address = mac_address

\* mac_address_exists that looks at the first ESP32 only
mac_address_exists_first(S, mac_address) ==
    S.ESP32s # <<>> /\ S.ESP32s[1].Mac_Address = mac_address

mac_address_exists(S, mac_address) ==
    \E i \in DOMAIN S.ESP32s : S.ESP32s[i].Mac_Address = mac_address

\* the object identity of the first Shelf with the number, or None
get_shelf_by_shelf_number(S, shelf_number) ==
    LET HasNumber(o) == S.heap[o].ShelfNumber = shelf_number
        i == FirstIndex(S.Shelves, HasNumber)
    IN  IF i = 0 THEN None ELSE S.Shelves[i]

get_shelf_by_mac_address(S, mac_address) ==
    LET HasMac(o) == S.heap[o].Mac_Address = mac_address
        i == FirstIndex(S.Shelves, HasMac)
    IN  IF i = 0 THEN None ELSE S.Shelves[i]

get_mac_address_by_shelf_number(S, shelf_number) ==
    LET o == get_shelf_by_shelf_number(S, shelf_number)
    IN  IF o = None THEN "None" ELSE S.heap[o].Mac_Address

\* the Positions list of the first Shelf with the number (<<>> stands for
\* None too: every caller treats None and the empty list alike)
get_positions_by_shelf_number(S, shelf_number) ==
    LET o == get_shelf_by_shelf_number(S, shelf_number)
    IN  IF o = None THEN <<>> ELSE S.heap[o].Positions

position_id_exists(S, shelf_number, position_id) ==
    \E i \in DOMAIN S.Shelves :
        /\ S.heap[S.Shelves[i]].ShelfNumber = shelf_number
        /\ \E k \in DOMAIN S.heap[S.Shelves[i]].Positions :
               S.heap[S.Shelves[i]].Positions[k].PositionId = position_id

\* the index, in the Positions of the first Shelf with the number, of the
\* first position with the id; 0 when there is none
get_position_by_shelf_number_and_position_id(S, shelf_number, position_id) ==
    LET HasId(p) == p.PositionId = position_id
    IN  FirstIndex(get_positions_by_shelf_number(S, shelf_number), HasId)

\* leds_exists that finds no LED in use
leds_exists_never(S, leds, shelf_number) == FALSE

leds_exists(S, leds, shelf_number) ==
    LET positions == get_positions_by_shelf_number(S, shelf_number)
    IN  \E k \in DOMAIN positions : \E l \in DOMAIN leds :
            leds[l] \in Range(positions[k].LEDs)

\* leds_exists_exclusive that also compares with the Position's own LEDs
leds_exists_inclusive(S, shelf_position) ==
    /\ position_id_exists(S, shelf_position.ShelfNumber, shelf_position.PositionId)
    /\ leds_exists(S, shelf_position.LEDs, shelf_position.ShelfNumber)

leds_exists_exclusive(S, shelf_position) ==
    LET positions == get_positions_by_shelf_number(S, shelf_position.ShelfNumber)
    IN  /\ position_id_exists(S, shelf_position.ShelfNumber, shelf_position.PositionId)
        /\ \E k \in DOMAIN positions :
               /\ positions[k].PositionId # shelf_position.PositionId
               /\ \E l \in DOMAIN shelf_position.LEDs :
                      shelf_position.LEDs[l] \in Range(positions[k].LEDs)

\* the LEDs of the position, <<>> standing for None
get_leds_by_shelf_number_and_position_id(S, shelf_number, position_id) ==
    LET k == get_position_by_shelf_number_and_position_id(S, shelf_number, position_id)
    IN  IF k = 0 THEN <<>> ELSE get_positions_by_shelf_number(S, shelf_number)[k].LEDs

\* index of the ESP32 in the list, 0 when the address is unknown
get_esp32_by_mac_address(S, mac_address) ==
    LET HasMac(e) == e.Mac_Address = mac_address
    IN  FirstIndex(S.ESP32s, HasMac)

Failed(S) == [dm |-> S, result |-> FALSE, removed |-> 0]
Done(S) == [dm |-> save_data(S), result |-> TRUE, removed |-> 0]

\* add_shelf that leaves the device's isUsed as it was
add_shelf_keeps_isUsed(S, o, shelf) ==
    LET e == get_esp32_by_mac_address(S, shelf.Mac_Address)
    IN  IF shelf_exists(S, shelf.ShelfNumber) THEN Failed(S)
        ELSE IF e = 0 THEN Failed(S)
        ELSE IF S.ESP32s[e].isUsed THEN Failed(S)
        ELSE Done([S EXCEPT !.heap[o] = shelf, !.Shelves = Append(@, o)])

\* shelf: the fields of the Shelf object o that is to be added
add_shelf(S, o, shelf) ==
    LET e == get_esp32_by_mac_address(S, shelf.Mac_Address)
    IN  IF shelf_exists(S, shelf.ShelfNumber) THEN Failed(S)
        ELSE IF e = 0 THEN Failed(S)
        ELSE IF S.ESP32s[e].isUsed THEN Failed(S)
        ELSE Done([S EXCEPT !.ESP32s[e].isUsed = TRUE,
                            !.heap[o] = shelf,
                            !.Shelves = Append(@, o)])

\* delete_shelf_by_shelf_number that leaves the device's isUsed as it was
delete_shelf_keeps_isUsed(S, shelf_number) ==
    LET o == get_shelf_by_shelf_number(S, shelf_number)
        e == get_esp32_by_mac_address(S, get_mac_address_by_shelf_number(S, shelf_number))
        Equal(x) == S.heap[x] = S.heap[o]
        i == FirstIndex(S.Shelves, Equal)
    IN  IF o = None THEN Failed(S)
        ELSE IF e = 0 THEN Failed(S)
        ELSE Done([S EXCEPT !.Shelves = RemoveAt(@, i)])

delete_shelf_by_shelf_number(S, shelf_number) ==
    LET o == get_shelf_by_shelf_number(S, shelf_number)
        e == get_esp32_by_mac_address(S, get_mac_address_by_shelf_number(S, shelf_number))
        \* list.remove: the first Shelf equal to the one found
        Equal(x) == S.heap[x] = S.heap[o]
        i == FirstIndex(S.Shelves, Equal)
    IN  IF o = None THEN Failed(S)
        ELSE IF e = 0 THEN Failed(S)
        ELSE Done([S EXCEPT !.Shelves = RemoveAt(@, i),
                            !.ESP32s[e].isUsed = FALSE])

\* o: the Shelf object the caller holds (it may have left the database)
add_position(S, o, shelf_position) ==
    LET shelf == S.heap[o]
    IN  IF ~shelf_exists(S, shelf.ShelfNumber) THEN Failed(S)
        ELSE IF position_id_exists(S, shelf.ShelfNumber, shelf_position.PositionId)
        THEN Failed(S)
        ELSE IF shelf_position.PositionId > BYTE_MAX \/ shelf_position.PositionId < 0
        THEN Failed(S)
        ELSE IF shelf_position.LEDs = <<>> THEN Failed(S)
        ELSE IF leds_exists(S, shelf_position.LEDs, shelf_position.ShelfNumber)
        THEN Failed(S)
        ELSE Done([S EXCEPT !.heap[o].Positions =
                       Append(@, [shelf_position EXCEPT !.ShelfNumber = shelf.ShelfNumber])])

update_position(S, o, shelf_position) ==
    LET shelf == S.heap[o]
        target == get_shelf_by_shelf_number(S, shelf.ShelfNumber)
        k == get_position_by_shelf_number_and_position_id(
                 S, shelf.ShelfNumber, shelf_position.PositionId)
    IN  IF ~shelf_exists(S, shelf.ShelfNumber) THEN Failed(S)
        ELSE IF ~position_id_exists(S, shelf.ShelfNumber, shelf_position.PositionId)
        THEN Failed(S)
        ELSE IF shelf_position.LEDs = <<>> THEN Failed(S)
        ELSE IF leds_exists_exclusive(S, shelf_position) THEN Failed(S)
        ELSE Done([S EXCEPT !.heap[target].Positions[k].ShelfNumber = shelf.ShelfNumber,
                            !.heap[target].Positions[k].LEDs = shelf_position.LEDs])

\* pidx: where the ShelfPosition object the caller holds sits in the Positions
\* of o (0 when it has left that list), pval: its fields
delete_position(S, o, pidx, pval) ==
    LET shelf == S.heap[o]
        current == IF pidx = 0 THEN pval ELSE shelf.Positions[pidx]
        \* list.remove: the first element that is, or equals, the object
        Equal(p) == p = current
        i == FirstIndex(shelf.Positions, Equal)
    IN  IF ~shelf_exists(S, shelf.ShelfNumber) THEN Failed(S)
        ELSE IF ~position_id_exists(S, shelf.ShelfNumber, pval.PositionId) THEN Failed(S)
        ELSE IF i = 0 THEN Failed(S)
        ELSE [Done([S EXCEPT !.heap[o].Positions = RemoveAt(@, i)]) EXCEPT !.removed = i]

\* add_esp32 that replaces the registry by the new device
add_esp32_replaces(S, esp32) ==
    IF mac_address_exists(S, esp32.Mac_Address) THEN Failed(S)
    ELSE Done([S EXCEPT !.ESP32s = <<esp32>>])

add_esp32(S, esp32) ==
    IF mac_address_exists(S, esp32.Mac_Address) THEN Failed(S)
    ELSE Done([S EXCEPT !.ESP32s = Append(@, esp32)])

\* ------------------------------------------------------------------ state
VARIABLES
    dm,       \* the DataManager: database objects and the two JSON files
    queue,    \* Mqtt.light_ack_queue and Mqtt.config_ack_queue
    awaited,  \* published commands, unanswered, whose sender still waits
    late,     \* published commands, unanswered, whose sender has returned
    rand,     \* the values random.randint(0, 255) takes in each worker thread
              \* in the runs studied
    pc,       \* where each worker thread stands in its route handler
    req,      \* the request a worker thread serves
    loc,      \* the locals of its handler and of publish_with_ack
    resp,     \* the response of its handler
    hist      \* history of the request: what the model observes about it

vars == <<dm, queue, awaited, late, rand, pc, req, loc, resp, hist>>

NoLoc ==
    [mac_address |-> "None", shelf |-> None, pidx |-> 0, pval |-> NoObj,
     select_queue |-> "none", topic |-> <<>>, payload |-> <<>>,
     timeout |-> 0, ack_id |-> 0,
     \* load_esp32: the turns its for loop has taken, and its flag
     index |-> 0, timeout_happened |-> FALSE]

\* delivered: an ACK equal to its outgoing_ack came in while it waited (kept
\* until publish_with_ack ends); status: what publish_with_ack returned
\* (0: it has not returned)
NoHist == [delivered |-> FALSE, status |-> 0]

\* the inventory: devices with their flags, Shelves and Positions, by value
Inventory(S) == Snapshot(S)

Topic(mac, branch, leaf) == <<"pbl", mac, branch, leaf>>

\* bytearray(list): ValueError unless every element is in range(256)
IsByteList(list) == \A i \in DOMAIN list : list[i] >= 0 /\ list[i] <= BYTE_MAX

Response(code, msg) == [status_code |-> code, msg |-> msg]

\* Shelf objects some worker thread still holds, with the holders' locals l
Held(l) == {l[t].shelf : t \in Threads} \ {None}

\* objects that are neither in the database nor held are reclaimed
Collect(S, l) ==
    [S EXCEPT !.heap = [o \in Oids |->
        IF o \in Range(S.Shelves) \cup Held(l) THEN S.heap[o] ELSE NoObj]]

\* identity given to a Shelf object with the number that is created now, the
\* database being S
FreshOid(S, shelf_number) ==
    LET mine == {(shelf_number - 1) * (NumThreads + 1) + g : g \in 1..(NumThreads + 1)}
        free == mine \ (Range(S.Shelves) \cup Held(loc))
    IN  CHOOSE o \in free : \A x \in free : o <= x

\* the commands of t that are awaited
Own(t) == {m \in awaited : m.by = t}

\* the handler of t returns: S the database it leaves, r its response, l the
\* locals of all threads as its last step leaves them
Finish(t, S, r, l) ==
    /\ pc' = [pc EXCEPT ![t] = "done"]
    /\ resp' = [resp EXCEPT ![t] = r]
    /\ loc' = [l EXCEPT ![t] = NoLoc]
    /\ dm' = Collect(S, loc')
    /\ hist' = [hist EXCEPT ![t] =
           [delivered |-> FALSE,
            status |-> IF pc[t] = "found" THEN HTTP_200_OK
                       ELSE IF pc[t] = "wait" THEN HTTP_504_GATEWAY_TIMEOUT ELSE 0]]
    /\ awaited' = awaited \ Own(t)

\* the handler of t rejects the request during validation
Reject(t, r) ==
    /\ pc' = [pc EXCEPT ![t] = "done"]
    /\ resp' = [resp EXCEPT ![t] = r]
    /\ loc' = [loc EXCEPT ![t] = NoLoc]
    /\ dm' = Collect(dm, loc')
    /\ UNCHANGED hist
    /\ UNCHANGED <<queue, awaited>>

\* ------------------------------------------------------ publish_with_ack
\* the ids the loop of lines 127-139 can end with: those whose ACK is not in
\* the queue
FreeIds(t, mac_address, select_queue) ==
    {id \in rand[t] : ACK(mac_address, id) \notin Range(queue[select_queue])}

\* a publish that puts the id behind the payload
Command_id_last(t, topic, payload, id) ==
    [topic |-> topic, payload |-> payload \o <<id>>, by |-> t]

\* lines 143-149: the payload is prefixed with the id and published
Command(t, topic, payload, id) ==
    [topic |-> topic, payload |-> <<id>> \o payload, by |-> t]

\* publish_with_ack that draws its id and publishes before it looks at
\* select_queue
Call_selects_late(t, S, l, timeout, mac_address, select_queue, topic, payload) ==
    LET args == [l EXCEPT !.timeout = timeout, !.mac_address = mac_address,
                          !.select_queue = select_queue,
                          !.topic = topic, !.payload = payload]
    IN  /\ UNCHANGED <<queue, resp, hist>>
        /\ IF ~IsByteList(payload)
           THEN /\ pc' = [pc EXCEPT ![t] = "raise"]
                /\ loc' = [loc EXCEPT ![t] = args]
                /\ UNCHANGED awaited
           ELSE IF select_queue \notin Classes
           THEN \E id \in rand[t] :
                /\ pc' = [pc EXCEPT ![t] = "raise"]
                /\ loc' = [loc EXCEPT ![t] = [args EXCEPT !.ack_id = id]]
                /\ awaited' = awaited \cup {Command(t, topic, payload, id)}
           ELSE IF FreeIds(t, mac_address, select_queue) = {}
           THEN /\ pc' = [pc EXCEPT ![t] = "draw"]
                /\ loc' = [loc EXCEPT ![t] = args]
                /\ UNCHANGED awaited
           ELSE \E id \in FreeIds(t, mac_address, select_queue) :
                /\ pc' = [pc EXCEPT ![t] = "wait"]
                /\ loc' = [loc EXCEPT ![t] = [args EXCEPT !.ack_id = id]]
                /\ awaited' = awaited \cup {Command(t, topic, payload, id)}
        /\ dm' = Collect(S, loc')

\* The handler of t calls publish_with_ack, l being its locals at the call and
\* S the database it leaves: lines 115-149.  The call raises when no queue is
\* selected (and so does bytearray() on a value that is no byte); it stays in
\* the loop of lines 136-139 while every id is taken.
Call(t, S, l, timeout, mac_address, select_queue, topic, payload) ==
    LET args == [l EXCEPT !.timeout = timeout, !.mac_address = mac_address,
                          !.select_queue = select_queue,
                          !.topic = topic, !.payload = payload]
    IN  /\ UNCHANGED <<queue, resp, hist>>
        /\ IF select_queue \notin Classes \/ ~IsByteList(payload)
           THEN /\ pc' = [pc EXCEPT ![t] = "raise"]
                /\ loc' = [loc EXCEPT ![t] = args]
                /\ UNCHANGED awaited
           ELSE IF FreeIds(t, mac_address, select_queue) = {}
           THEN /\ pc' = [pc EXCEPT ![t] = "draw"]
                /\ loc' = [loc EXCEPT ![t] = args]
                /\ UNCHANGED awaited
           ELSE \E id \in FreeIds(t, mac_address, select_queue) :
                /\ pc' = [pc EXCEPT ![t] = "wait"]
                /\ loc' = [loc EXCEPT ![t] = [args EXCEPT !.ack_id = id]]
                /\ awaited' = awaited \cup {Command(t, topic, payload, id)}
        /\ dm' = Collect(S, loc')

outgoing_ack(t) == ACK(loc[t].mac_address, loc[t].ack_id)

\* lines 136-149 for a caller that was held in the loop: an id became free
Publish(t) ==
    /\ pc[t] = "draw"
    /\ \E id \in FreeIds(t, loc[t].mac_address, loc[t].select_queue) :
        /\ loc' = [loc EXCEPT ![t].ack_id = id]
        /\ awaited' = awaited \cup {Command(t, loc[t].topic, loc[t].payload, id)}
    /\ pc' = [pc EXCEPT ![t] = "wait"]
    /\ UNCHANGED <<dm, queue, resp, req, hist>>

\* line 154: the loop test finds the ACK in the queue
AckFound(t) ==
    /\ pc[t] = "wait"
    /\ outgoing_ack(t) \in Range(queue[loc[t].select_queue])
    /\ pc' = [pc EXCEPT ![t] = "found"]
    /\ UNCHANGED <<dm, queue, awaited, req, loc, resp, hist>>

\* list.remove(x): the list without its first element equal to x
ListRemove(list, x) ==
    LET Equal(y) == y = x
    IN  RemoveAt(list, FirstIndex(list, Equal))

\* an exception leaves the handler: the server answers 500
Raise(t) ==
    /\ resp' = [resp EXCEPT ![t] = Response(HTTP_500_INTERNAL_SERVER_ERROR, "exception")]
    /\ pc' = [pc EXCEPT ![t] = "done"]
    /\ loc' = [loc EXCEPT ![t] = NoLoc]
    /\ dm' = Collect(dm, loc')
    /\ awaited' = awaited \ Own(t)
    /\ hist' = [hist EXCEPT ![t] = NoHist]

\* line 160 with the ACK gone from the queue: queue.remove raises ValueError
RemoveRaises(t) ==
    /\ pc[t] = "found"
    /\ outgoing_ack(t) \notin Range(queue[loc[t].select_queue])
    /\ Raise(t)
    /\ UNCHANGED <<queue, req>>

\* lines 115-122 and bytearray(): the call raises before it publishes
CallRaises(t) ==
    /\ pc[t] = "raise"
    /\ Raise(t)
    /\ UNCHANGED <<queue, req>>

\* --------------------------------------------------------------- Api routes
\* PUT /light/createShelf
create_shelf(t, shelf) ==
    LET e == get_esp32_by_mac_address(dm, shelf.Mac_Address)
        a == add_shelf(dm, FreshOid(dm, shelf.ShelfNumber), shelf)
    IN  /\ pc[t] = "idle"
        /\ req' = [req EXCEPT ![t] = [op |-> "createShelf", shelf |-> shelf]]
        /\ IF shelf_exists(dm, shelf.ShelfNumber)
           THEN Reject(t, Response(HTTP_406_NOT_ACCEPTABLE, "shelf number used"))
           ELSE IF ~mac_address_exists(dm, shelf.Mac_Address) \/ e = 0
           THEN Reject(t, Response(HTTP_404_NOT_FOUND, "mac not registered"))
           ELSE IF dm.ESP32s[e].isUsed
           THEN Reject(t, Response(HTTP_406_NOT_ACCEPTABLE, "mac used"))
           ELSE /\ Finish(t, a.dm,
                          IF a.result THEN Response(HTTP_200_OK, "created")
                          ELSE Response(HTTP_500_INTERNAL_SERVER_ERROR, "not created"),
                          loc)
                /\ UNCHANGED queue

\* __validate_shelf, the Shelf being found
validate_shelf(shelf_position) ==
    IF shelf_position.PositionId > BYTE_MAX \/ shelf_position.PositionId < 0
    THEN HTTP_400_BAD_REQUEST
    ELSE HTTP_200_OK

\* __publish_create_update_position that stores the Position before it
\* publishes
publish_after_commit(t, shelf_position, mac_address, create) ==
    LET shelf == get_shelf_by_shelf_number(dm, shelf_position.ShelfNumber)
        S == IF create THEN add_position(dm, shelf, shelf_position).dm
             ELSE update_position(dm, shelf, shelf_position).dm
    IN  Call(t, S,
             [NoLoc EXCEPT !.mac_address = mac_address, !.shelf = shelf],
             TIMEOUT, mac_address, "config_ack",
             Topic(mac_address, "config",
                   IF create THEN "create_Position" ELSE "update_Position"),
             <<shelf_position.PositionId>> \o shelf_position.LEDs)

\* __publish_create_update_position: the call of publish_with_ack
publish_create_update_position(t, shelf_position, mac_address, create) ==
    Call(t, dm,
         [NoLoc EXCEPT !.mac_address = mac_address,
                       !.shelf = get_shelf_by_shelf_number(dm, shelf_position.ShelfNumber)],
         TIMEOUT, mac_address, "config_ack",
         Topic(mac_address, "config",
               IF create THEN "create_Position" ELSE "update_Position"),
         <<shelf_position.PositionId>> \o shelf_position.LEDs)

\* PUT /light/createPosition, up to the call of publish_with_ack
create_position(t, shelf_position) ==
    LET mac_address == get_mac_address_by_shelf_number(dm, shelf_position.ShelfNumber)
    IN  /\ pc[t] = "idle"
        /\ req' = [req EXCEPT ![t] =
                      [op |-> "createPosition", shelf_position |-> shelf_position]]
        /\ IF mac_address = "None"
           THEN Reject(t, Response(HTTP_404_NOT_FOUND, "shelf not found"))
           ELSE IF position_id_exists(dm, shelf_position.ShelfNumber,
                                      shelf_position.PositionId)
           THEN Reject(t, Response(HTTP_406_NOT_ACCEPTABLE, "position exists"))
           ELSE IF validate_shelf(shelf_position) # HTTP_200_OK
           THEN Reject(t, Response(validate_shelf(shelf_position), "position id range"))
           ELSE IF leds_exists(dm, shelf_position.LEDs, shelf_position.ShelfNumber)
           THEN Reject(t, Response(HTTP_406_NOT_ACCEPTABLE, "leds used"))
           ELSE publish_create_update_position(t, shelf_position, mac_address, TRUE)

\* PUT /light/updatePosition, up to the call of publish_with_ack
update_position_route(t, shelf_position) ==
    LET mac_address == get_mac_address_by_shelf_number(dm, shelf_position.ShelfNumber)
    IN  /\ pc[t] = "idle"
        /\ req' = [req EXCEPT ![t] =
                      [op |-> "updatePosition", shelf_position |-> shelf_position]]
        /\ IF mac_address = "None"
           THEN Reject(t, Response(HTTP_404_NOT_FOUND, "shelf not found"))
           ELSE IF ~position_id_exists(dm, shelf_position.ShelfNumber,
                                       shelf_position.PositionId)
           THEN Reject(t, Response(HTTP_406_NOT_ACCEPTABLE, "position missing"))
           ELSE IF validate_shelf(shelf_position) # HTTP_200_OK
           THEN Reject(t, Response(validate_shelf(shelf_position), "position id range"))
           ELSE IF leds_exists_exclusive(dm, shelf_position)
           THEN Reject(t, Response(HTTP_406_NOT_ACCEPTABLE, "leds used"))
           ELSE publish_create_update_position(t, shelf_position, mac_address, FALSE)

\* DELETE /light/deletePosition, up to the call of publish_with_ack
delete_position_route(t, shelf_number, position_id) ==
    LET mac_address == get_mac_address_by_shelf_number(dm, shelf_number)
        shelf == get_shelf_by_shelf_number(dm, shelf_number)
        k == get_position_by_shelf_number_and_position_id(dm, shelf_number, position_id)
        shelf_position == [ShelfNumber |-> shelf_number, PositionId |-> position_id]
    IN  /\ pc[t] = "idle"
        /\ req' = [req EXCEPT ![t] =
                      [op |-> "deletePosition", shelf_position |-> shelf_position]]
        /\ IF mac_address = "None"
           THEN Reject(t, Response(HTTP_404_NOT_FOUND, "shelf not found"))
           ELSE IF ~position_id_exists(dm, shelf_number, position_id)
           THEN Reject(t, Response(HTTP_406_NOT_ACCEPTABLE, "position missing"))
           ELSE IF validate_shelf(shelf_position) # HTTP_200_OK
           THEN Reject(t, Response(validate_shelf(shelf_position), "position id range"))
           ELSE IF k = 0
           THEN Reject(t, Response(HTTP_404_NOT_FOUND, "position not found"))
           ELSE Call(t, dm,
                     [NoLoc EXCEPT !.mac_address = mac_address,
                                   !.shelf = shelf,
                                   !.pidx = k,
                                   !.pval = dm.heap[shelf].Positions[k]],
                     TIMEOUT, mac_address, "config_ack",
                     Topic(mac_address, "config", "delete_Position"),
                     <<dm.heap[shelf].Positions[k].PositionId>>)

\* DELETE /light/deleteShelf, up to the call of publish_with_ack
delete_shelf(t, shelf_number) ==
    LET shelf == get_shelf_by_shelf_number(dm, shelf_number)
    IN  /\ pc[t] = "idle"
        /\ req' = [req EXCEPT ![t] = [op |-> "deleteShelf", ShelfNumber |-> shelf_number]]
        /\ IF ~shelf_exists(dm, shelf_number) \/ shelf = None
           THEN Reject(t, Response(HTTP_404_NOT_FOUND, "shelf not found"))
           ELSE Call(t, dm,
                     [NoLoc EXCEPT !.mac_address = dm.heap[shelf].Mac_Address,
                                   !.shelf = shelf],
                     TIMEOUT + 20, dm.heap[shelf].Mac_Address, "config_ack",
                     Topic(dm.heap[shelf].Mac_Address, "config", "reset"), <<>>)

SetUsed(S, mac_address, used) ==
    [S EXCEPT !.ESP32s[get_esp32_by_mac_address(S, mac_address)].isUsed = used]

\* getESP32 that asks for the dump and keeps the Shelf as it is
get_esp32_config_keeps(t, mac_address, shelf_number) ==
    LET unused == SetUsed(dm, mac_address, FALSE)
        b == add_shelf(unused, FreshOid(unused, shelf_number), Shelf(shelf_number, mac_address, <<>>))
        get(S) == Call(t, S, [NoLoc EXCEPT !.mac_address = mac_address],
                       TIMEOUT, mac_address, "config_ack",
                       Topic(mac_address, "config", "get"), <<>>)
    IN  /\ pc[t] = "idle"
        /\ req' = [req EXCEPT ![t] = [op |-> "getESP32", Mac_Address |-> mac_address,
                                      ShelfNumber |-> shelf_number]]
        /\ IF ~mac_address_exists(dm, mac_address)
           THEN Reject(t, Response(HTTP_404_NOT_FOUND, "mac not registered"))
           ELSE IF mac_address = get_mac_address_by_shelf_number(dm, shelf_number)
           THEN get(dm)
           ELSE IF ~shelf_exists(dm, shelf_number) /\ b.result
           THEN get(b.dm)
           ELSE Reject(t, Response(HTTP_400_BAD_REQUEST, "other shelf"))

\* GET /light/getESP32, up to the call of publish_with_ack
get_esp32_config(t, mac_address, shelf_number) ==
    LET d == delete_shelf_by_shelf_number(dm, shelf_number)
        a == add_shelf(d.dm, FreshOid(d.dm, shelf_number), Shelf(shelf_number, mac_address, <<>>))
        \* lines 679-680
        unused == SetUsed(dm, mac_address, FALSE)
        b == add_shelf(unused, FreshOid(unused, shelf_number), Shelf(shelf_number, mac_address, <<>>))
        get(S) == Call(t, S, [NoLoc EXCEPT !.mac_address = mac_address],
                       TIMEOUT, mac_address, "config_ack",
                       Topic(mac_address, "config", "get"), <<>>)
    IN  /\ pc[t] = "idle"
        /\ req' = [req EXCEPT ![t] = [op |-> "getESP32", Mac_Address |-> mac_address,
                                      ShelfNumber |-> shelf_number]]
        /\ IF ~mac_address_exists(dm, mac_address)
           THEN Reject(t, Response(HTTP_404_NOT_FOUND, "mac not registered"))
           ELSE IF mac_address = get_mac_address_by_shelf_number(dm, shelf_number)
                   /\ d.result
           THEN IF a.result
                THEN get(a.dm)
                ELSE /\ Finish(t, a.dm,
                               Response(HTTP_400_BAD_REQUEST, "deleted, not recreated"),
                               loc)
                     /\ UNCHANGED queue
           ELSE IF ~shelf_exists(dm, shelf_number)
           THEN IF b.result
                THEN get(b.dm)
                ELSE /\ Finish(t, SetUsed(b.dm, mac_address, TRUE),
                               Response(HTTP_400_BAD_REQUEST, "shelf not added"), loc)
                     /\ UNCHANGED queue
           ELSE Reject(t, Response(HTTP_400_BAD_REQUEST, "other shelf"))

\* __validate_set_unset_parameters
validate_set_unset_parameters(conf) ==
    IF ~mac_address_exists(dm, conf.Mac_Address) THEN HTTP_404_NOT_FOUND
    ELSE IF \E i \in DOMAIN conf.LEDs : conf.LEDs[i] > BYTE_MAX \/ conf.LEDs[i] < 0
    THEN HTTP_400_BAD_REQUEST
    ELSE HTTP_200_OK

\* ---- color_string_to_byte_array: a str is the sequence of its characters
HexDigits ==
    <<"0", "1", "2", "3", "4", "5", "6", "7", "8", "9", "A", "B", "C", "D", "E", "F">>

LowerHex == <<"a", "b", "c", "d", "e", "f">>

\* [0-9a-fA-F]
IsHexChar(c) == c \in Range(HexDigits) \cup Range(LowerHex)

\* re.match("#[0-9a-fA-F]{6}", string): the pattern matches a prefix of string
re_match(string) ==
    /\ Len(string) >= 7
    /\ string[1] = "#"
    /\ \A i \in 2..7 : IsHexChar(string[i])

\* str.upper()
upper(string) ==
    [i \in DOMAIN string |->
        IF string[i] \in Range(LowerHex)
        THEN HexDigits[10 + CHOOSE k \in DOMAIN LowerHex : LowerHex[k] = string[i]]
        ELSE string[i]]

\* bytearray.fromhex(string) for a string of upper-case hexadecimal digits of
\* even length
fromhex(string) ==
    LET value(c) == (CHOOSE k \in DOMAIN HexDigits : HexDigits[k] = c) - 1
    IN  [i \in 1..(Len(string) \div 2) |->
            16 * value(string[2 * i - 1]) + value(string[2 * i])]

\* lines 18-49; <<>> stands for None (the function returns no empty bytearray)
color_string_to_byte_array(color_as_string) ==
    IF re_match(color_as_string)
    THEN fromhex(Tail(upper(SubSeq(color_as_string, 1, 7))))
    ELSE <<>>

\* POST /light/setLEDs, up to the call of publish_with_ack
set_leds(t, conf) ==
    LET colors_byte_array == color_string_to_byte_array(conf.Color)
    IN  /\ pc[t] = "idle"
        /\ req' = [req EXCEPT ![t] = [op |-> "setLEDs", conf |-> conf]]
        /\ IF validate_set_unset_parameters(conf) # HTTP_200_OK
           THEN Reject(t, Response(validate_set_unset_parameters(conf), "set parameters"))
           ELSE IF colors_byte_array = <<>>
           THEN Reject(t, Response(HTTP_400_BAD_REQUEST, "color format"))
           ELSE Call(t, dm, [NoLoc EXCEPT !.mac_address = conf.Mac_Address],
                     TIMEOUT, conf.Mac_Address, "light_ack",
                     Topic(conf.Mac_Address, "light", "set"),
                     conf.LEDs \o colors_byte_array)

\* POST /light/unsetLEDs, up to the call of publish_with_ack
unset_leds(t, conf) ==
    /\ pc[t] = "idle"
    /\ req' = [req EXCEPT ![t] = [op |-> "unsetLEDs", conf |-> conf]]
    /\ IF validate_set_unset_parameters(conf) # HTTP_200_OK
       THEN Reject(t, Response(validate_set_unset_parameters(conf), "unset parameters"))
       ELSE Call(t, dm, [NoLoc EXCEPT !.mac_address = conf.Mac_Address],
                 TIMEOUT, conf.Mac_Address, "light_ack",
                 Topic(conf.Mac_Address, "light", "unset"), conf.LEDs)

\* resetESP32 that empties the Shelf of the device in the database too
reset_esp32_forgets(t, esp32_to_be_reset) ==
    LET o == get_shelf_by_mac_address(dm, esp32_to_be_reset.Mac_Address)
        S == IF o = None THEN dm ELSE save_data([dm EXCEPT !.heap[o].Positions = <<>>])
    IN  /\ pc[t] = "idle"
        /\ req' = [req EXCEPT ![t] = [op |-> "resetESP32",
                                      Mac_Address |-> esp32_to_be_reset.Mac_Address]]
        /\ Call(t, S, [NoLoc EXCEPT !.mac_address = esp32_to_be_reset.Mac_Address],
                TIMEOUT + 20, esp32_to_be_reset.Mac_Address, "config_ack",
                Topic(esp32_to_be_reset.Mac_Address, "config", "reset"), <<>>)

\* POST /light/resetESP32, up to the call of publish_with_ack
reset_esp32(t, esp32_to_be_reset) ==
    /\ pc[t] = "idle"
    /\ req' = [req EXCEPT ![t] = [op |-> "resetESP32",
                                  Mac_Address |-> esp32_to_be_reset.Mac_Address]]
    /\ Call(t, dm, [NoLoc EXCEPT !.mac_address = esp32_to_be_reset.Mac_Address],
            TIMEOUT + 20, esp32_to_be_reset.Mac_Address, "config_ack",
            Topic(esp32_to_be_reset.Mac_Address, "config", "reset"), <<>>)

\* __validate_turn_on_off_parameters
validate_turn_on_off_parameters(conf, mac_address) ==
    IF mac_address = "None" THEN HTTP_404_NOT_FOUND
    ELSE IF conf.PositionId > BYTE_MAX \/ conf.PositionId < 0 THEN HTTP_400_BAD_REQUEST
    ELSE IF ~position_id_exists(dm, conf.ShelfNumber, conf.PositionId)
    THEN HTTP_404_NOT_FOUND
    ELSE HTTP_200_OK

\* POST /light/turnOn, up to the call of publish_with_ack
turn_on(t, conf) ==
    LET mac_address == get_mac_address_by_shelf_number(dm, conf.ShelfNumber)
        colors_byte_array == color_string_to_byte_array(conf.Color)
        k == get_position_by_shelf_number_and_position_id(
                 dm, conf.ShelfNumber, conf.PositionId)
        leds == get_leds_by_shelf_number_and_position_id(
                    dm, conf.ShelfNumber, conf.PositionId)
    IN  /\ pc[t] = "idle"
        /\ req' = [req EXCEPT ![t] = [op |-> "turnOn", conf |-> conf]]
        /\ IF validate_turn_on_off_parameters(conf, mac_address) # HTTP_200_OK
           THEN Reject(t, Response(validate_turn_on_off_parameters(conf, mac_address),
                                   "turn on parameters"))
           ELSE IF colors_byte_array = <<>>
           THEN Reject(t, Response(HTTP_400_BAD_REQUEST, "color format"))
           ELSE IF k = 0
           THEN Reject(t, Response(HTTP_404_NOT_FOUND, "leds not found"))
           ELSE Call(t, dm, [NoLoc EXCEPT !.mac_address = mac_address],
                     TIMEOUT, mac_address, "light_ack",
                     Topic(mac_address, "light", "set"), leds \o colors_byte_array)

\* POST /light/turnOff, up to the call of publish_with_ack
turn_off(t, conf) ==
    LET mac_address == get_mac_address_by_shelf_number(dm, conf.ShelfNumber)
        k == get_position_by_shelf_number_and_position_id(
                 dm, conf.ShelfNumber, conf.PositionId)
        leds == get_leds_by_shelf_number_and_position_id(
                    dm, conf.ShelfNumber, conf.PositionId)
    IN  /\ pc[t] = "idle"
        /\ req' = [req EXCEPT ![t] = [op |-> "turnOff", conf |-> conf]]
        /\ IF validate_turn_on_off_parameters(conf, mac_address) # HTTP_200_OK
           THEN Reject(t, Response(validate_turn_on_off_parameters(conf, mac_address),
                                   "turn off parameters"))
           ELSE IF k = 0
           THEN Reject(t, Response(HTTP_404_NOT_FOUND, "leds not found"))
           ELSE Call(t, dm, [NoLoc EXCEPT !.mac_address = mac_address],
                     TIMEOUT, mac_address, "light_ack",
                     Topic(mac_address, "light", "unset"), leds)

\* POST /light/turnOnAll, up to the call of publish_with_ack
turn_on_all(t, shelf_number) ==
    LET mac_address == get_mac_address_by_shelf_number(dm, shelf_number.ShelfNumber)
        colors_byte_array == color_string_to_byte_array(shelf_number.Color)
    IN  /\ pc[t] = "idle"
        /\ req' = [req EXCEPT ![t] = [op |-> "turnOnAll", conf |-> shelf_number]]
        /\ IF mac_address = "None"
           THEN Reject(t, Response(HTTP_404_NOT_FOUND, "shelf not found"))
           ELSE IF colors_byte_array = <<>>
           THEN Reject(t, Response(HTTP_400_BAD_REQUEST, "color format"))
           ELSE Call(t, dm, [NoLoc EXCEPT !.mac_address = mac_address],
                     TIMEOUT, mac_address, "light_ack",
                     Topic(mac_address, "light", "allOn"),
                     <<colors_byte_array[1], colors_byte_array[2], colors_byte_array[3]>>)

\* POST /light/turnOffAll, up to the call of publish_with_ack
turn_off_all(t, shelf_number) ==
    LET mac_address == get_mac_address_by_shelf_number(dm, shelf_number.ShelfNumber)
    IN  /\ pc[t] = "idle"
        /\ req' = [req EXCEPT ![t] = [op |-> "turnOffAll", conf |-> shelf_number]]
        /\ IF mac_address = "None"
           THEN Reject(t, Response(HTTP_404_NOT_FOUND, "shelf not found"))
           ELSE Call(t, dm, [NoLoc EXCEPT !.mac_address = mac_address],
                     TIMEOUT, mac_address, "light_ack",
                     Topic(mac_address, "light", "allOff"), <<>>)

\* ---- load_esp32. The for loop walks the Positions list of the Shelf object
\* it fetched (loc.shelf) as that list is at each turn; loc.index counts the
\* turns taken.
\* lines 767-776: the answer after the loop, status_code being what the last
\* call of publish_with_ack returned (200 when there was none)
load_answer(status_code, timeout_happened) ==
    IF status_code = HTTP_504_GATEWAY_TIMEOUT \/ timeout_happened
    THEN Response(status_code, "timeout")
    ELSE Response(HTTP_200_OK, "loaded")

\* lines 754-776 after a call of publish_with_ack returned status_code and left
\* the queues as q: the next turn of the loop up to its publish, or the answer
load_next(t, q, status_code) ==
    LET timeout_happened == loc[t].timeout_happened \/ status_code = HTTP_504_GATEWAY_TIMEOUT
        positions == dm.heap[loc[t].shelf].Positions
        i == loc[t].index + 1
        list_of_int == <<positions[i].PositionId>> \o positions[i].LEDs
        l == [loc[t] EXCEPT !.index = i, !.timeout_happened = timeout_happened,
                            !.payload = list_of_int]
        free == {id \in rand[t] : ACK(l.mac_address, id) \notin Range(q[l.select_queue])}
    IN  /\ queue' = q
        /\ UNCHANGED req
        /\ IF i > Len(positions)
           THEN Finish(t, dm, load_answer(status_code, timeout_happened), loc)
           ELSE /\ UNCHANGED resp
                /\ hist' = [hist EXCEPT ![t] = [delivered |-> FALSE, status |-> status_code]]
                /\ IF ~IsByteList(list_of_int)
                   THEN /\ pc' = [pc EXCEPT ![t] = "raise"]
                        /\ loc' = [loc EXCEPT ![t] = l]
                        /\ awaited' = awaited \ Own(t)
                   ELSE IF free = {}
                   THEN /\ pc' = [pc EXCEPT ![t] = "draw"]
                        /\ loc' = [loc EXCEPT ![t] = l]
                        /\ awaited' = awaited \ Own(t)
                   ELSE \E id \in free :
                        /\ pc' = [pc EXCEPT ![t] = "wait"]
                        /\ loc' = [loc EXCEPT ![t] = [l EXCEPT !.ack_id = id]]
                        /\ awaited' = (awaited \ Own(t)) \cup
                                          {Command(t, l.topic, list_of_int, id)}
                /\ dm' = Collect(dm, loc')

\* POST /light/loadESP32, up to the first call of publish_with_ack
load_esp32(t, shelf_number) ==
    LET mac_address == get_mac_address_by_shelf_number(dm, shelf_number.ShelfNumber)
        shelf == get_shelf_by_shelf_number(dm, shelf_number.ShelfNumber)
        positions == dm.heap[shelf].Positions
    IN  /\ pc[t] = "idle"
        /\ req' = [req EXCEPT ![t] =
                      [op |-> "loadESP32", ShelfNumber |-> shelf_number.ShelfNumber]]
        /\ IF mac_address = "None"
           THEN Reject(t, Response(HTTP_404_NOT_FOUND, "shelf not found"))
           ELSE IF positions = <<>>
           THEN /\ Finish(t, dm, load_answer(HTTP_200_OK, FALSE), loc)
                /\ UNCHANGED queue
           ELSE Call(t, dm,
                     [NoLoc EXCEPT !.mac_address = mac_address, !.shelf = shelf,
                                   !.index = 1],
                     TIMEOUT, mac_address, "config_ack",
                     Topic(mac_address, "config", "update_Position"),
                     <<positions[1].PositionId>> \o positions[1].LEDs)

\* publish_with_ack returns 200 to load_esp32 (Mqtt lines 159-161)
LoadAcked(t) ==
    /\ pc[t] = "found"
    /\ req[t].op = "loadESP32"
    /\ outgoing_ack(t) \in Range(queue[loc[t].select_queue])
    /\ load_next(t, [queue EXCEPT ![loc[t].select_queue] = ListRemove(@, outgoing_ack(t))],
                 HTTP_200_OK)

\* publish_with_ack returns 504 to load_esp32 (Mqtt lines 156-158)
LoadTimedOut(t) ==
    /\ pc[t] = "wait"
    /\ req[t].op = "loadESP32"
    /\ outgoing_ack(t) \notin Range(queue[loc[t].select_queue])
    /\ load_next(t, queue, HTTP_504_GATEWAY_TIMEOUT)

\* a handler that answers a failed commit with the answer of its validation
After200_as_validation(t) ==
    LET op == req[t].op
        l == loc[t]
        add == add_position(dm, l.shelf, req[t].shelf_position)
        upd == update_position(dm, l.shelf, req[t].shelf_position)
        del == delete_position(dm, l.shelf, l.pidx, l.pval)
        dsh == delete_shelf_by_shelf_number(dm, dm.heap[l.shelf].ShelfNumber)
        Out(r, ok, code, ko) ==
            [dm |-> r.dm, removed |-> r.removed,
             resp |-> IF r.result THEN Response(HTTP_200_OK, ok)
                      ELSE Response(code, ko)]
    IN  CASE op = "createPosition" ->
               Out(add, "added", HTTP_406_NOT_ACCEPTABLE, "position exists")
          [] op = "updatePosition" ->
               Out(upd, "updated", HTTP_406_NOT_ACCEPTABLE, "position missing")
          [] op = "deletePosition" ->
               Out(del, "deleted", HTTP_404_NOT_FOUND, "position not found")
          [] op = "deleteShelf" ->
               Out(dsh, "shelf deleted", HTTP_404_NOT_FOUND, "shelf not found")
          [] OTHER -> [dm |-> dm, removed |-> 0, resp |-> Response(HTTP_200_OK, "acked")]

\* ----------------------------------------- after publish_with_ack returned
\* what a handler does with status 200: the database it leaves, its response
\* and the index its delete_position removed from the Positions of its Shelf
After200(t) ==
    LET op == req[t].op
        l == loc[t]
        add == add_position(dm, l.shelf, req[t].shelf_position)
        upd == update_position(dm, l.shelf, req[t].shelf_position)
        del == delete_position(dm, l.shelf, l.pidx, l.pval)
        dsh == delete_shelf_by_shelf_number(dm, dm.heap[l.shelf].ShelfNumber)
        Out(r, ok, ko) ==
            [dm |-> r.dm, removed |-> r.removed,
             resp |-> IF r.result THEN Response(HTTP_200_OK, ok)
                      ELSE Response(HTTP_406_NOT_ACCEPTABLE, ko)]
    IN  CASE op = "createPosition" -> Out(add, "added", "ack, not added")
          [] op = "updatePosition" -> Out(upd, "updated", "ack, not added")
          [] op = "deletePosition" -> Out(del, "deleted", "ack, not deleted")
          [] op = "deleteShelf" -> Out(dsh, "shelf deleted", "ack, shelf not deleted")
          [] OTHER -> [dm |-> dm, removed |-> 0, resp |-> Response(HTTP_200_OK, "acked")]

\* a ShelfPosition object left the Positions of Shelf object o at index i:
\* the threads that hold a reference into that list follow their object
Unlink(l, o, i) ==
    [u \in Threads |->
        IF l[u].shelf # o \/ l[u].pidx < i THEN l[u]
        ELSE IF l[u].pidx = i
        THEN [l[u] EXCEPT !.pidx = 0, !.pval = dm.heap[o].Positions[i]]
        ELSE [l[u] EXCEPT !.pidx = @ - 1]]

\* lines 159-161, then the commit of a handler that calls publish_with_ack once
Acked(t) ==
    LET out == After200(t)
    IN  /\ pc[t] = "found"
        /\ req[t].op # "loadESP32"
        /\ outgoing_ack(t) \in Range(queue[loc[t].select_queue])
        /\ queue' = [queue EXCEPT ![loc[t].select_queue] = ListRemove(@, outgoing_ack(t))]
        /\ Finish(t, out.dm, out.resp,
                  IF out.removed = 0 THEN loc ELSE Unlink(loc, loc[t].shelf, out.removed))
        /\ UNCHANGED req

\* a handler that commits on status 504 as it does on status 200
After504_commits(t) ==
    [dm |-> After200(t).dm, removed |-> After200(t).removed,
     resp |-> Response(HTTP_504_GATEWAY_TIMEOUT, "timeout")]

\* what a handler does with status 504
After504(t) ==
    [dm |-> dm, removed |-> 0, resp |-> Response(HTTP_504_GATEWAY_TIMEOUT, "timeout")]

\* a timeout that empties the queue it polled
TimedOut_clears(t) ==
    /\ pc[t] = "wait"
    /\ req[t].op # "loadESP32"
    /\ outgoing_ack(t) \notin Range(queue[loc[t].select_queue])
    /\ Finish(t, After504(t).dm, After504(t).resp,
              IF After504(t).removed = 0 THEN loc
              ELSE Unlink(loc, loc[t].shelf, After504(t).removed))
    /\ queue' = [queue EXCEPT ![loc[t].select_queue] = <<>>]
    /\ UNCHANGED req

\* lines 156-158, then the timeout answer of a handler that calls
\* publish_with_ack once
TimedOut(t) ==
    /\ pc[t] = "wait"
    /\ req[t].op # "loadESP32"
    /\ outgoing_ack(t) \notin Range(queue[loc[t].select_queue])
    /\ Finish(t, After504(t).dm, After504(t).resp,
              IF After504(t).removed = 0 THEN loc
              ELSE Unlink(loc, loc[t].shelf, After504(t).removed))
    /\ UNCHANGED <<queue, req>>

\* the response is sent, the worker thread is free again
Return(t) ==
    /\ pc[t] = "done"
    /\ pc' = [pc EXCEPT ![t] = "idle"]
    /\ req' = [req EXCEPT ![t] = NoReq]
    /\ resp' = [resp EXCEPT ![t] = NoResp]
    /\ hist' = [hist EXCEPT ![t] = NoHist]
    /\ UNCHANGED <<dm, queue, awaited, loc>>

\* ---------------------------------------------------------- Mqtt callbacks
Callback(S) ==
    /\ dm' = S
    /\ UNCHANGED <<queue, awaited, late, rand, pc, req, loc, resp, hist>>

\* a registration that enters the known device anew
receive_register_resets(incoming_mac_address) ==
    LET e == get_esp32_by_mac_address(dm, incoming_mac_address)
    IN  IF mac_address_exists(dm, incoming_mac_address)
        THEN Callback(save_data([dm EXCEPT !.ESP32s[e] =
                                     ESP32(incoming_mac_address, FALSE, TRUE)]))
        ELSE Callback(add_esp32(dm, ESP32(incoming_mac_address, FALSE, TRUE)).dm)

\* an offline notice that enters the unknown device as offline
config_offline_adds(topic) ==
    LET mac_address == topic[2]
        e == get_esp32_by_mac_address(dm, mac_address)
    IN  IF mac_address_exists(dm, mac_address)
        THEN Callback(save_data([dm EXCEPT !.ESP32s[e].isOnline = FALSE]))
        ELSE Callback(add_esp32(dm, ESP32(mac_address, FALSE, FALSE)).dm)

\* pbl/register, the payload being the address as text
receive_register(incoming_mac_address) ==
    LET e == get_esp32_by_mac_address(dm, incoming_mac_address)
    IN  IF mac_address_exists(dm, incoming_mac_address)
        THEN Callback(save_data([dm EXCEPT !.ESP32s[e].isOnline = TRUE]))
        ELSE Callback(add_esp32(dm, ESP32(incoming_mac_address, FALSE, TRUE)).dm)

\* pbl/<mac>/config/offline
config_offline(topic) ==
    LET mac_address == topic[2]
        e == get_esp32_by_mac_address(dm, mac_address)
    IN  IF mac_address_exists(dm, mac_address)
        THEN Callback(save_data([dm EXCEPT !.ESP32s[e].isOnline = FALSE]))
        ELSE Callback(dm)

\* a dump message that replaces the LEDs of a Position the Shelf has
config_put_upserts(topic, payload) ==
    LET mac_address == topic[2]
        shelf == get_shelf_by_mac_address(dm, mac_address)
        position_id == payload[1]
        leds == Tail(payload)
        shelf_position == ShelfPosition(dm.heap[shelf].ShelfNumber, position_id, leds)
    IN  IF shelf = None \/ leds = <<>>
        THEN Callback(dm)
        ELSE IF position_id_exists(dm, dm.heap[shelf].ShelfNumber, position_id)
        THEN Callback(update_position(dm, shelf, shelf_position).dm)
        ELSE Callback(add_position(dm, shelf, shelf_position).dm)

\* pbl/<mac>/config/put: one position of the device's dump
config_put(topic, payload) ==
    LET mac_address == topic[2]
        shelf == get_shelf_by_mac_address(dm, mac_address)
        position_id == payload[1]
        leds == Tail(payload)
    IN  IF shelf = None \/ leds = <<>>
        THEN Callback(dm)
        ELSE Callback(add_position(dm, shelf,
                 ShelfPosition(dm.heap[shelf].ShelfNumber, position_id, leds)).dm)

\* receive_ack: the ACK of the topic's address and the payload's first byte
\* is appended to the queue
receive_ack(topic, payload, q) ==
    /\ Len(queue[q]) < MaxQueue
    /\ queue' = [queue EXCEPT ![q] = Append(@, ACK(topic[2], payload[1]))]
    /\ hist' = [u \in Threads |->
                   IF /\ pc[u] \in {"wait", "found"}
                      /\ loc[u].select_queue = q
                      /\ outgoing_ack(u) = ACK(topic[2], payload[1])
                   THEN [hist[u] EXCEPT !.delivered = TRUE]
                   ELSE hist[u]]

\* one callback for both ack topics, filling the config queue
Answer_one_queue(m) ==
    receive_ack(<<"pbl", m.topic[2], m.topic[3], "ack">>, <<m.payload[1]>>, "config_ack")

\* the device answers a command on the ack topic of the command's branch
\* (pbl/+/light/ack -> receive_light_ack, pbl/+/config/ack -> receive_config_ack)
Answer(m) ==
    receive_ack(<<"pbl", m.topic[2], m.topic[3], "ack">>, <<m.payload[1]>>,
                IF m.topic[3] = "light" THEN "light_ack" ELSE "config_ack")

\* the answer arrives while the sender of the command waits
DeviceAck(m) ==
    /\ m \in awaited
    /\ awaited' = awaited \ {m}
    /\ Answer(m)
    /\ UNCHANGED <<dm, late, rand, pc, req, loc, resp>>

\* the answer arrives after the sender of the command has returned
DeviceAckLate(m) ==
    /\ m \in late
    /\ late' = late \ {m}
    /\ Answer(m)
    /\ UNCHANGED <<dm, awaited, rand, pc, req, loc, resp>>

\* ------------------------------------------------------------ specification
\* no request, no message
Quiet ==
    /\ queue = [q \in Classes |-> <<>>]
    /\ awaited = {}
    /\ late = {}
    /\ pc = [t \in Threads |-> "idle"]
    /\ req = [t \in Threads |-> NoReq]
    /\ loc = [t \in Threads |-> NoLoc]
    /\ resp = [t \in Threads |-> NoResp]
    /\ hist = [t \in Threads |-> NoHist]

Start == dm = DataManagerInit /\ Quiet

\* What becomes of the commands a worker thread stops waiting for.
\* Prompt: the device answers a command while its sender waits, or never.
Prompt == late' = late /\ rand' = rand

\* Late: the answer may still come after the sender has returned.
Late ==
    LET left == {[topic |-> m.topic, payload |-> m.payload] : m \in awaited \ awaited'}
    IN  /\ late' = IF Cardinality(late \cup left) <= MaxNet THEN late \cup left ELSE late
        /\ rand' = rand

\* the runs in which the worker threads draw ids of their own
OwnIds == [t \in Threads |-> {(t - 1) % (MaxAckId + 1)}]

\* the runs in which every worker thread may draw every id
AnyIds == [t \in Threads |-> AckIds]

\* the steps of an exchange whose id no other exchange carries
Exchange ==
    \/ \E t \in Threads : AckFound(t)
    \/ \E t \in Threads : Acked(t)
    \/ \E t \in Threads : TimedOut(t)
    \/ \E t \in Threads : Return(t)

Device == \E m \in awaited : DeviceAck(m)

\* ---- Spec: the registry and the Shelves (register, createShelf, deleteShelf,
\* getESP32) with every Shelf number and address
ShelfRoutes ==
    \/ \E t \in Threads, n \in ShelfNumbers, mac \in Macs : create_shelf(t, Shelf(n, mac, <<>>))
    \/ \E t \in Threads, n \in ShelfNumbers : delete_shelf(t, n)
    \/ \E t \in Threads, n \in ShelfNumbers, mac \in Macs : get_esp32_config(t, mac, n)

Init == Start /\ rand = OwnIds

Next ==
    \/ (Exchange \/ ShelfRoutes) /\ Prompt
    \/ Device
    \/ \E mac \in Macs : receive_register(mac)

Spec == Init /\ [][Next]_vars

\* ---- SpecPos: the Positions of the Shelves of one device (createShelf with
\* and without Positions in its body, createPosition, updatePosition,
\* deletePosition, deleteShelf, the device's config/put dump)
CreateRequests ==
    {ShelfPosition(1, 0, <<1>>), ShelfPosition(1, MaxPositionId, <<1>>),
     ShelfPosition(1, MaxPositionId, <<MaxLed>>)}

UpdateRequests == {ShelfPosition(1, p, <<1, MaxLed>>) : p \in PositionIds}

ShelfBodies ==
    {<<>>, <<ShelfPosition(1, 0, <<1>>), ShelfPosition(1, MaxPositionId, <<1, MaxLed>>)>>}

PosDumps == {<<MaxPositionId, MaxLed>>}

PositionRoutes ==
    \/ \E t \in Threads, n \in ShelfNumbers, body \in ShelfBodies :
           create_shelf(t, Shelf(n, "m1", IF n = 1 THEN body ELSE <<>>))
    \/ \E t \in Threads, sp \in CreateRequests : create_position(t, sp)
    \/ \E t \in Threads, sp \in UpdateRequests : update_position_route(t, sp)
    \/ \E t \in Threads, p \in PositionIds : delete_position_route(t, 1, p)
    \/ \E t \in Threads : delete_shelf(t, 1)

InitPos == Start /\ rand = OwnIds

NextPos ==
    \/ (Exchange \/ PositionRoutes) /\ Prompt
    \/ Device
    \/ receive_register("m1")
    \/ \E payload \in PosDumps : config_put(Topic("m1", "config", "put"), payload)

SpecPos == InitPos /\ [][NextPos]_vars


\* ---- SpecReg: the registry from start-up on. Before DataManager is
\* constructed dm is the two files alone; the main file is missing or holds a
\* snapshot the program wrote.
ESP32Lists ==
    {<<>>} \cup
    {<<ESP32("m1", u, o)>> : u \in BOOLEAN, o \in BOOLEAN} \cup
    {<<ESP32("m1", u, o), ESP32("m2", FALSE, o2)>> :
        u \in BOOLEAN, o \in BOOLEAN, o2 \in BOOLEAN}

Files ==
    {NoObj} \cup
    {[ESP32s |-> es, Shelves |-> <<>>] :
        es \in {x \in ESP32Lists : x = <<>> \/ ~x[1].isUsed}} \cup
    {[ESP32s |-> es, Shelves |-> <<Shelf(1, "m1", pos)>>] :
        es \in {x \in ESP32Lists : x # <<>> /\ x[1].isUsed},
        pos \in {<<>>, <<ShelfPosition(1, 0, <<1>>)>>}}

Booted == "heap" \in DOMAIN dm

\* DataManager(path), lines 52-73
Startup ==
    /\ ~Booted
    /\ dm' = IF dm.disk = NoObj THEN DataManagerInit ELSE DataManagerLoad(dm.disk)
    /\ UNCHANGED <<queue, awaited, late, rand, pc, req, loc, resp, hist>>

RegistryRoutes ==
    \/ \E t \in Threads, mac \in Macs : create_shelf(t, Shelf(1, mac, <<>>))
    \/ \E t \in Threads : delete_shelf(t, 1)

InitReg ==
    /\ \E f \in Files : dm \in {[disk |-> f, backup |-> b] : b \in {NoObj, f}}
    /\ Quiet
    /\ rand = OwnIds

NextReg ==
    \/ Startup
    \/ Booted /\ (Exchange \/ RegistryRoutes) /\ Prompt
    \/ Booted /\ Device
    \/ \E mac \in Macs : Booted /\ receive_register(mac)
    \/ \E mac \in Macs : Booted /\ config_offline(Topic(mac, "config", "offline"))

SpecReg == InitReg /\ [][NextReg]_vars

\* ---- SpecColor: setLEDs with colour strings of 5 to 8 characters: with and
\* without the '#', digits of both cases, a character that is no digit, and
\* one character more than the format has
ColorHeads == {<<h, d1, d2, "1", "9", "c", "E">> :
                  h \in {"#", "f"}, d1 \in {"0", "a", "F", "g"}, d2 \in {"0", "a", "F", "g"}}

Colors ==
    {c \o tail : c \in ColorHeads, tail \in {<<>>, <<"0">>, <<"z">>}} \cup
    {SubSeq(c, 1, n) : c \in ColorHeads, n \in {5, 6}}

InitColor == Start /\ rand = OwnIds

NextColor ==
    \/ Exchange /\ Prompt
    \/ (\E t \in Threads, color \in Colors :
           set_leds(t, [Mac_Address |-> "m1", LEDs |-> <<1>>, Color |-> color])) /\ Prompt
    \/ Device
    \/ receive_register("m1")

SpecColor == InitColor /\ [][NextColor]_vars

\* ---- SpecRange: the Positions of Shelf 1 with PositionIds and LEDs at and
\* beyond the ends of 0..255, empty LEDs lists, and createShelf bodies that
\* carry Positions
RangeIds == {0, BYTE_MAX, BYTE_MAX + 1, -1}

RangeLeds == {<<>>, <<1>>, <<BYTE_MAX>>, <<BYTE_MAX + 1>>, <<1, -1>>}

RangeRequests == {ShelfPosition(1, p, leds) : p \in RangeIds, leds \in RangeLeds}

RangeBodies ==
    {<<>>,
     <<ShelfPosition(1, 0, <<1>>), ShelfPosition(1, 0, <<BYTE_MAX>>)>>,
     <<ShelfPosition(1, BYTE_MAX + 1, <<1>>)>>}

RangeDumps == {<<0, 1>>, <<BYTE_MAX, BYTE_MAX>>, <<0, BYTE_MAX>>, <<BYTE_MAX>>}

RangeRoutes ==
    \/ \E t \in Threads, body \in RangeBodies : create_shelf(t, Shelf(1, "m1", body))
    \/ \E t \in Threads, sp \in RangeRequests : create_position(t, sp)
    \/ \E t \in Threads, sp \in RangeRequests : update_position_route(t, sp)
    \/ \E t \in Threads, p \in {0, BYTE_MAX} : delete_position_route(t, 1, p)
    \/ \E t \in Threads : CallRaises(t)

InitRange == Start /\ rand = OwnIds

NextRange ==
    \/ (Exchange \/ RangeRoutes) /\ Prompt
    \/ Device
    \/ receive_register("m1")
    \/ \E payload \in RangeDumps : config_put(Topic("m1", "config", "put"), payload)

SpecRange == InitRange /\ [][NextRange]_vars

\* ---- SpecDump: getESP32 for Shelf 1 of m1 and the dump messages of m1:
\* new Positions, a PositionId twice, an LED twice, a message without LEDs
DumpRoutes ==
    \/ \E t \in Threads : create_shelf(t, Shelf(1, "m1", <<>>))
    \/ \E t \in Threads : get_esp32_config(t, "m1", 1)

InitDump == Start /\ rand = OwnIds

NextDump ==
    \/ (Exchange \/ DumpRoutes) /\ Prompt
    \/ Device
    \/ receive_register("m1")
    \/ \E payload \in RangeDumps : config_put(Topic("m1", "config", "put"), payload)

SpecDump == InitDump /\ [][NextDump]_vars

\* ---- SpecAck: the exchanges of publish_with_ack (resetESP32 on the config
\* class, unsetLEDs on the light class), every worker thread drawing any id,
\* answers arriving in time, late or never
AckRoutes ==
    \/ \E t \in Threads, mac \in Macs : reset_esp32(t, [Mac_Address |-> mac])
    \/ \E t \in Threads : unset_leds(t, [Mac_Address |-> "m1", LEDs |-> <<1>>])

Collisions ==
    \/ \E t \in Threads : Publish(t)
    \/ \E t \in Threads : RemoveRaises(t)

InitAck == Start /\ rand = AnyIds

NextAck ==
    \/ (Exchange \/ Collisions \/ AckRoutes) /\ Late
    \/ Device
    \/ \E m \in late : DeviceAckLate(m)
    \/ receive_register("m1")

SpecAck == InitAck /\ [][NextAck]_vars

\* ---- SpecLive: the exchanges of resetESP32 with one device under fair
\* scheduling: a worker thread that is inside publish_with_ack keeps running
\* (both loops of the method are busy loops), the device answers in time, late
\* or never
LiveRoutes == \E t \in Threads : reset_esp32(t, [Mac_Address |-> "m1"])

NextLive ==
    \/ (Exchange \/ Collisions \/ LiveRoutes) /\ Late
    \/ Device
    \/ \E m \in late : DeviceAckLate(m)

\* the next step of publish_with_ack in worker thread t
Progress(t) ==
    (Publish(t) \/ AckFound(t) \/ Acked(t) \/ RemoveRaises(t) \/ TimedOut(t)) /\ Late

SpecLive == InitAck /\ [][NextLive]_vars /\ \A t \in Threads : WF_vars(Progress(t))

\* ---- SpecLight: the routes that only send (turnOn, turnOff, turnOnAll,
\* turnOffAll, setLEDs, unsetLEDs, resetESP32, loadESP32) for Shelf 1 of m1,
\* which is created empty or with two Positions, and for Shelf 2, which is
\* never created
LightBodies ==
    {<<>>, <<ShelfPosition(1, 0, <<MaxLed, 1>>), ShelfPosition(1, MaxPositionId, <<BYTE_MAX>>)>>}

\* a colour, the same with one character more, and one with a wrong digit
LightColors ==
    {<<"#", "0", "a", "1", "9", "c", "E">>,
     <<"#", "0", "a", "1", "9", "c", "E", "0">>,
     <<"#", "g", "a", "1", "9", "c", "E">>}

LightRoutes ==
    \/ \E t \in Threads, body \in LightBodies : create_shelf(t, Shelf(1, "m1", body))
    \/ \E t \in Threads, n \in ShelfNumbers, p \in {0, BYTE_MAX + 1}, color \in LightColors :
           turn_on(t, [ShelfNumber |-> n, PositionId |-> p, Color |-> color])
    \/ \E t \in Threads, n \in ShelfNumbers, p \in {MaxPositionId, -1} :
           turn_off(t, [ShelfNumber |-> n, PositionId |-> p])
    \/ \E t \in Threads, n \in ShelfNumbers, color \in LightColors :
           turn_on_all(t, [ShelfNumber |-> n, Color |-> color])
    \/ \E t \in Threads, n \in ShelfNumbers : turn_off_all(t, [ShelfNumber |-> n])
    \/ \E t \in Threads, color \in LightColors :
           set_leds(t, [Mac_Address |-> "m1", LEDs |-> <<1>>, Color |-> color])
    \/ \E t \in Threads : unset_leds(t, [Mac_Address |-> "m1", LEDs |-> <<1>>])
    \/ \E t \in Threads : reset_esp32(t, [Mac_Address |-> "m1"])
    \/ \E t \in Threads, n \in ShelfNumbers : load_esp32(t, [ShelfNumber |-> n])
    \/ \E t \in Threads : LoadAcked(t)
    \/ \E t \in Threads : LoadTimedOut(t)

InitLight == Start /\ rand = OwnIds

NextLight ==
    \/ (Exchange \/ LightRoutes) /\ Prompt
    \/ Device
    \/ receive_register("m1")

SpecLight == InitLight /\ [][NextLight]_vars

\* ---- SpecQueue: publish_with_ack called with every kind of select_queue (the
\* two the routes pass, another name, the empty string) while the ACKs of
\* other calls come in
QueueNames == Classes \cup {"other_ack", ""}

\* a caller of publish_with_ack: the call of reset_esp32 with the queue name
\* left open
publish_with_ack(t, select_queue) ==
    /\ pc[t] = "idle"
    /\ req' = [req EXCEPT ![t] = [op |-> "publish_with_ack", select_queue |-> select_queue]]
    /\ Call(t, dm, [NoLoc EXCEPT !.mac_address = "m1"],
            TIMEOUT, "m1", select_queue, Topic("m1", "config", "reset"), <<>>)

InitQueue == Start /\ rand = OwnIds

NextQueue ==
    \/ Exchange /\ Prompt
    \/ (\E t \in Threads, select_queue \in QueueNames : publish_with_ack(t, select_queue))
           /\ Prompt
    \/ (\E t \in Threads : CallRaises(t)) /\ Prompt
    \/ Device

SpecQueue == InitQueue /\ [][NextQueue]_vars

\* ------------------------------------------------------------------ claims
\* a step of the handler of worker thread t
Step(t) == pc'[t] # pc[t]


\* the Shelves of the inventory that are bound to the address
ShelvesOf(S, mac) == {i \in DOMAIN S.Shelves : S.heap[S.Shelves[i]].Mac_Address = mac}

\* C1: in every reachable state each device address is referenced by at most
\* one Shelf.
C1_OneShelfPerDevice == \A mac \in Macs : Cardinality(ShelvesOf(dm, mac)) <= 1

\* C10: between operations an ESP32's isUsed is True exactly when some Shelf
\* references its address.
C10_UsedIffReferenced ==
    (\A t \in Threads : pc[t] \in {"idle", "done"}) =>
        \A i \in DOMAIN dm.ESP32s :
            dm.ESP32s[i].isUsed <=> ShelvesOf(dm, dm.ESP32s[i].Mac_Address) # {}

IsUsed(S, mac) ==
    \E i \in DOMAIN S.ESP32s : S.ESP32s[i].Mac_Address = mac /\ S.ESP32s[i].isUsed

\* C8: createShelf(n, mac) succeeds exactly when no Shelf n exists, mac is
\* registered and its isUsed is False; on success Shelf n bound to mac is
\* stored (and saved) and isUsed is True; with isUsed True it is rejected and
\* nothing changes.
C8_CreateShelf ==
    [][\A t \in Threads :
        (Step(t) /\ pc[t] = "idle" /\ req'[t].op = "createShelf") =>
            LET shelf == req'[t].shelf
                ok == /\ ~shelf_exists(dm, shelf.ShelfNumber)
                      /\ mac_address_exists(dm, shelf.Mac_Address)
                      /\ ~IsUsed(dm, shelf.Mac_Address)
            IN  /\ pc'[t] = "done"
                /\ resp'[t].status_code = HTTP_200_OK <=> ok
                /\ ok => /\ Inventory(dm').Shelves = Append(Inventory(dm).Shelves, shelf)
                         /\ IsUsed(dm', shelf.Mac_Address)
                         /\ dm'.disk = Inventory(dm')
                /\ ~ok => Inventory(dm') = Inventory(dm)
                /\ IsUsed(dm, shelf.Mac_Address) =>
                       resp'[t].status_code = HTTP_406_NOT_ACCEPTABLE]_vars

\* a createShelf succeeded and a second one bound to the same address was
\* rejected
C8_Witness ==
    \E t, u \in Threads :
        /\ pc[t] = "done" /\ req[t].op = "createShelf"
        /\ resp[t].status_code = HTTP_200_OK
        /\ pc[u] = "done" /\ req[u].op = "createShelf"
        /\ req[u].shelf.Mac_Address = req[t].shelf.Mac_Address
        /\ req[u].shelf.ShelfNumber # req[t].shelf.ShelfNumber
        /\ resp[u] = Response(HTTP_406_NOT_ACCEPTABLE, "mac used")
        /\ IsUsed(dm, req[t].shelf.Mac_Address)

\* the inventory without the Shelf numbered n, its device no longer used
WithoutShelf(inv, n) ==
    LET Bound(e) == \E i \in DOMAIN inv.Shelves :
            inv.Shelves[i].ShelfNumber = n /\ inv.Shelves[i].Mac_Address = e.Mac_Address
        Other(shelf) == shelf.ShelfNumber # n
    IN  [Shelves |-> SelectSeq(inv.Shelves, Other),
         ESP32s |-> [i \in DOMAIN inv.ESP32s |->
                        IF Bound(inv.ESP32s[i])
                        THEN [inv.ESP32s[i] EXCEPT !.isUsed = FALSE]
                        ELSE inv.ESP32s[i]]]

\* C9: deleteShelf(n) on an existing Shelf publishes a reset command to the
\* Shelf's device; when publish_with_ack returns 200, and only then, Shelf n
\* with its Positions leaves the inventory and its device's isUsed becomes
\* False, every other Shelf and ESP32 staying as it is.
C9_DeleteShelf ==
    [][\A t \in Threads :
        (Step(t) /\ req'[t].op = "deleteShelf") =>
            LET n == req'[t].ShelfNumber
            IN  /\ (pc[t] = "idle" /\ shelf_exists(dm, n)) =>
                       /\ pc'[t] \in {"draw", "wait"}
                       /\ loc'[t].topic = Topic(get_mac_address_by_shelf_number(dm, n),
                                                "config", "reset")
                /\ pc'[t] = "wait" =>
                       \E id \in AckIds :
                           Command(t, loc'[t].topic, <<>>, id) \in awaited' \ awaited
                /\ IF hist'[t].status = HTTP_200_OK /\ pc[t] = "found"
                   THEN /\ Inventory(dm') = WithoutShelf(Inventory(dm), n)
                        /\ ~shelf_exists(dm', n)
                        /\ resp'[t].status_code = HTTP_200_OK <=> shelf_exists(dm, n)
                   ELSE Inventory(dm') = Inventory(dm)]_vars

\* a deleteShelf was acknowledged and removed its Shelf while another Shelf,
\* bound to a used device, stayed
C9_Witness ==
    \E t \in Threads :
        /\ pc[t] = "done" /\ req[t].op = "deleteShelf"
        /\ resp[t] = Response(HTTP_200_OK, "shelf deleted")
        /\ ~shelf_exists(dm, req[t].ShelfNumber)
        /\ \E i \in DOMAIN dm.Shelves : IsUsed(dm, dm.heap[dm.Shelves[i]].Mac_Address)
        /\ \E i \in DOMAIN dm.ESP32s : ~dm.ESP32s[i].isUsed

AllPositions(S) == [i \in DOMAIN S.Shelves |-> S.heap[S.Shelves[i]].Positions]

\* C2: in every reachable state the LED lists of two distinct Positions of a
\* Shelf share no LED.
C2_DisjointLeds ==
    \A i \in DOMAIN dm.Shelves :
        LET positions == AllPositions(dm)[i]
        IN  \A j, k \in DOMAIN positions :
                j # k => Range(positions[j].LEDs) \cap Range(positions[k].LEDs) = {}

PositionOps == {"createPosition", "updatePosition", "deletePosition"}

\* C5: a step of createPosition, updatePosition or deletePosition changes the
\* Positions in the inventory only if it follows publish_with_ack returning
\* 200 to that handler.
C5_PositionsAfterAck ==
    [][\A t \in Threads :
        (Step(t) /\ req'[t].op \in PositionOps /\ AllPositions(dm') # AllPositions(dm)) =>
            /\ pc[t] = "found"
            /\ hist'[t].status = HTTP_200_OK
            /\ outgoing_ack(t) \in Range(queue[loc[t].select_queue])]_vars

\* a createPosition was acknowledged and its Position is in the inventory
C5_Witness ==
    \E t \in Threads :
        /\ pc[t] = "done" /\ req[t].op = "createPosition"
        /\ hist[t].status = HTTP_200_OK
        /\ resp[t] = Response(HTTP_200_OK, "added")
        /\ \E i \in DOMAIN dm.Shelves, k \in 1..2 :
               /\ k \in DOMAIN AllPositions(dm)[i]
               /\ AllPositions(dm)[i][k] = req[t].shelf_position

\* C6: when publish_with_ack returns 504 to createPosition, updatePosition,
\* deletePosition or deleteShelf, the handler answers with the timeout, and
\* no step of the operation up to and including that answer changes the
\* inventory.
C6_TimeoutLeavesInventory ==
    [][\A t \in Threads :
        (Step(t) /\ req'[t].op \in PositionOps \cup {"deleteShelf"} /\ pc[t] # "found") =>
            /\ Inventory(dm') = Inventory(dm)
            /\ dm'.disk = dm.disk
            /\ (pc[t] = "wait" /\ pc'[t] = "done") =>
                   /\ hist'[t].status = HTTP_504_GATEWAY_TIMEOUT
                   /\ resp'[t].status_code = HTTP_504_GATEWAY_TIMEOUT]_vars

\* a deletePosition timed out and its Position is still in the inventory
C6_Witness ==
    \E t \in Threads :
        /\ pc[t] = "done" /\ req[t].op = "deletePosition"
        /\ hist[t].status = HTTP_504_GATEWAY_TIMEOUT
        /\ resp[t] = Response(HTTP_504_GATEWAY_TIMEOUT, "timeout")
        /\ position_id_exists(dm, req[t].shelf_position.ShelfNumber,
                              req[t].shelf_position.PositionId)

\* the LEDs the Positions of Shelf n use
UsedLeds(S, n) ==
    UNION {Range(S.heap[S.Shelves[i]].Positions[k].LEDs) :
              i \in {i \in DOMAIN S.Shelves : S.heap[S.Shelves[i]].ShelfNumber = n},
              k \in {k \in 1..MaxPositionId + 2 :
                        \E j \in DOMAIN S.Shelves :
                            /\ S.heap[S.Shelves[j]].ShelfNumber = n
                            /\ k \in DOMAIN S.heap[S.Shelves[j]].Positions}}

HasPosition(S, n, p) ==
    \E i \in DOMAIN S.Shelves :
        /\ S.heap[S.Shelves[i]].ShelfNumber = n
        /\ \E k \in DOMAIN S.heap[S.Shelves[i]].Positions :
               S.heap[S.Shelves[i]].Positions[k].PositionId = p

\* the requests the claim lists as failing validation
Invalid(r) ==
    CASE r.op = "createPosition" ->
            \/ ~shelf_exists(dm, r.shelf_position.ShelfNumber)
            \/ HasPosition(dm, r.shelf_position.ShelfNumber, r.shelf_position.PositionId)
            \/ Range(r.shelf_position.LEDs)
                   \cap UsedLeds(dm, r.shelf_position.ShelfNumber) # {}
      [] r.op \in {"updatePosition", "deletePosition"} ->
            ~HasPosition(dm, r.shelf_position.ShelfNumber, r.shelf_position.PositionId)
      [] r.op = "createShelf" ->
            \/ shelf_exists(dm, r.shelf.ShelfNumber)
            \/ ~mac_address_exists(dm, r.shelf.Mac_Address)
            \/ IsUsed(dm, r.shelf.Mac_Address)
      [] OTHER -> FALSE

\* C7: a request that fails validation is answered with an error in the step
\* that receives it, nothing is published and the inventory stays as it is.
C7_RejectedUntouched ==
    [][\A t \in Threads :
        (Step(t) /\ pc[t] = "idle" /\ Invalid(req'[t])) =>
            /\ pc'[t] = "done"
            /\ resp'[t].status_code \in
                   {HTTP_400_BAD_REQUEST, HTTP_404_NOT_FOUND, HTTP_406_NOT_ACCEPTABLE}
            /\ awaited' = awaited
            /\ late' = late
            /\ Inventory(dm') = Inventory(dm)
            /\ dm'.disk = dm.disk]_vars

\* a createPosition with a used LED and a createShelf with a used address
\* were rejected
C7_Witness ==
    \E t, u \in Threads :
        /\ pc[t] = "done" /\ req[t].op = "createPosition"
        /\ resp[t] = Response(HTTP_406_NOT_ACCEPTABLE, "leds used")
        /\ pc[u] = "done" /\ req[u].op = "createShelf"
        /\ resp[u] = Response(HTTP_406_NOT_ACCEPTABLE, "mac used")

\* the exchange of worker thread t is outstanding: published, not returned
Outstanding(t) == pc[t] \in {"wait", "found"}

\* C4: no two outstanding exchanges for the same address and the same class
\* carry the same id.
C4_DistinctOutstandingIds ==
    \A t, u \in Threads :
        (/\ t # u
         /\ Outstanding(t) /\ Outstanding(u)
         /\ loc[t].mac_address = loc[u].mac_address
         /\ loc[t].select_queue = loc[u].select_queue) =>
            loc[t].ack_id # loc[u].ack_id

\* C3: publish_with_ack ends by returning 200 when an ACK of its address, id
\* and class came in while it waited, and by returning 504 when none did.
C3_AckIffDelivered ==
    [][\A t \in Threads :
        (Step(t) /\ Outstanding(t) /\ pc'[t] = "done") =>
            /\ hist'[t].status \in {HTTP_200_OK, HTTP_504_GATEWAY_TIMEOUT}
            /\ hist'[t].status = HTTP_200_OK <=> hist[t].delivered]_vars

\* the addresses of the registry
RegisteredMacs(S) == {S.ESP32s[i].Mac_Address : i \in DOMAIN S.ESP32s}

\* C11: in every reachable state the address of every Shelf is the address
\* of an ESP32 of the registry.
C11_ShelfDeviceRegistered ==
    \A i \in DOMAIN dm.Shelves :
        dm.heap[dm.Shelves[i]].Mac_Address \in RegisteredMacs(dm)

\* a Shelf is bound to the one registered device and a createShelf naming
\* an unregistered device was refused
C11_Witness ==
    /\ \E i \in DOMAIN dm.Shelves : dm.heap[dm.Shelves[i]].Mac_Address = "m1"
    /\ RegisteredMacs(dm) = {"m1"}
    /\ \E t \in Threads :
           /\ pc[t] = "done" /\ req[t].op = "createShelf"
           /\ req[t].shelf.Mac_Address = "m2"
           /\ resp[t] = Response(HTTP_404_NOT_FOUND, "mac not registered")

\* C12: when createPosition reports success, get_leds_by_shelf_number_and_
\* position_id and get_position_by_shelf_number_and_position_id give back the
\* PositionId and the LED list of the request; when deletePosition reports
\* success, position_id_exists is False for its PositionId.
C12_RoundTrip ==
    [][\A t \in Threads :
        (Step(t) /\ pc[t] = "found" /\ resp'[t].status_code = HTTP_200_OK) =>
            LET n == req[t].shelf_position.ShelfNumber
                p == req[t].shelf_position.PositionId
                o == get_shelf_by_shelf_number(dm', n)
                k == get_position_by_shelf_number_and_position_id(dm', n, p)
            IN  /\ req[t].op = "createPosition" =>
                       /\ k # 0
                       /\ dm'.heap[o].Positions[k].PositionId = p
                       /\ dm'.heap[o].Positions[k].LEDs = req[t].shelf_position.LEDs
                       /\ get_leds_by_shelf_number_and_position_id(dm', n, p)
                              = req[t].shelf_position.LEDs
                /\ req[t].op = "deletePosition" => ~position_id_exists(dm', n, p)]_vars

\* C13: in every reachable state (every mutation that succeeded has returned
\* or is about to) the backup file equals the main file, which equals the
\* inventory in memory.
C13_BackupFollows ==
    /\ dm.disk = Inventory(dm)
    /\ dm.backup = dm.disk
MutatingOps == PositionOps \cup {"deleteShelf"}

\* the answers an operation gives when its validation fails
ValidationOutcomes(op) ==
    {Response(HTTP_404_NOT_FOUND, "shelf not found")} \cup
    (IF op = "deleteShelf" THEN {}
     ELSE {Response(HTTP_400_BAD_REQUEST, "position id range")}) \cup
    (IF op = "createPosition"
     THEN {Response(HTTP_406_NOT_ACCEPTABLE, "position exists"),
           Response(HTTP_406_NOT_ACCEPTABLE, "leds used")} ELSE {}) \cup
    (IF op = "updatePosition"
     THEN {Response(HTTP_406_NOT_ACCEPTABLE, "position missing"),
           Response(HTTP_406_NOT_ACCEPTABLE, "leds used")} ELSE {}) \cup
    (IF op = "deletePosition"
     THEN {Response(HTTP_406_NOT_ACCEPTABLE, "position missing"),
           Response(HTTP_404_NOT_FOUND, "position not found")} ELSE {})

\* C14: a createPosition, updatePosition, deletePosition or deleteShelf that
\* is refused before it publishes answers with one of its validation answers;
\* one whose command was acknowledged and whose commit then fails answers
\* with a status and message that is none of them, and its step leaves the
\* inventory as it was.
C14_CommitFailureDistinct ==
    [][\A t \in Threads :
        /\ (Step(t) /\ pc[t] = "idle" /\ pc'[t] = "done" /\ req'[t].op \in MutatingOps)
               => resp'[t] \in ValidationOutcomes(req'[t].op)
        /\ (Step(t) /\ pc[t] = "found" /\ req[t].op \in MutatingOps
                /\ resp'[t].status_code # HTTP_200_OK)
               => /\ resp'[t] \notin ValidationOutcomes(req[t].op)
                  /\ Inventory(dm') = Inventory(dm)
                  /\ dm'.disk = dm.disk]_vars

\* two createPosition of one PositionId passed validation together: the first
\* to be acknowledged added its Position, the commit of the second failed
C14_Witness ==
    \E t, u \in Threads :
        /\ pc[t] = "done" /\ req[t].op = "createPosition"
        /\ resp[t] = Response(HTTP_406_NOT_ACCEPTABLE, "ack, not added")
        /\ position_id_exists(dm, req[t].shelf_position.ShelfNumber,
                              req[t].shelf_position.PositionId)
        /\ pc[u] = "done" /\ req[u].op = "createPosition"
        /\ resp[u] = Response(HTTP_200_OK, "added")
        /\ req[u].shelf_position.PositionId = req[t].shelf_position.PositionId

\* the ShelfNumber a mutating request names
ShelfNumberOf(r) ==
    IF r.op = "deleteShelf" THEN r.ShelfNumber ELSE r.shelf_position.ShelfNumber

\* thread t passed validation and has not committed yet
InFlight(t) == pc[t] \in {"draw", "wait", "found"} /\ req[t].op \in MutatingOps

\* C15: no two handlers of createPosition, updatePosition, deletePosition or
\* deleteShelf that name the same Shelf are between validation and commit at
\* the same time.
C15_Serialized ==
    \A t, u \in Threads :
        (t # u /\ InFlight(t) /\ InFlight(u))
            => ShelfNumberOf(req[t]) # ShelfNumberOf(req[u])

\* the registry S with isOnline of every entry of address a set to v
WithOnline(S, a, v) ==
    [i \in DOMAIN S.ESP32s |->
        IF S.ESP32s[i].Mac_Address = a
        THEN [S.ESP32s[i] EXCEPT !.isOnline = v] ELSE S.ESP32s[i]]

\* C16: a registration message for address a adds ESP32(a, isUsed False,
\* isOnline True) at the end of the registry when a is unknown, and sets only
\* the isOnline of a to True when a is known; the other ESP32s, the isUsed
\* flags and the Shelves stay as they were, and the main file holds the
\* inventory after the step.
C16_Registration ==
    [][\A a \in Macs :
        (Booted /\ receive_register(a)) =>
            /\ dm'.ESP32s = IF mac_address_exists(dm, a)
                            THEN WithOnline(dm, a, TRUE)
                            ELSE Append(dm.ESP32s, ESP32(a, FALSE, TRUE))
            /\ Inventory(dm').Shelves = Inventory(dm).Shelves
            /\ dm'.disk = Inventory(dm')]_vars

\* both cases have happened since start-up: m1 was loaded from the file, in
\* use, set offline by the start-up and is online again with its isUsed kept;
\* m2 is not in the backup of the start-up and is registered now
C16_Witness ==
    /\ Booted
    /\ mac_address_exists(dm.backup, "m1")
    /\ ~mac_address_exists(dm.backup, "m2")
    /\ dm.ESP32s = <<ESP32("m1", TRUE, TRUE), ESP32("m2", FALSE, TRUE)>>
    /\ dm.disk = Inventory(dm)

\* C17: an offline notice for address a sets the isOnline of a to False and
\* writes the main file when a is known; when a is unknown nothing changes:
\* not the registry, not the Shelves, not the files.
C17_OfflineNotice ==
    [][\A a \in Macs :
        (Booted /\ config_offline(Topic(a, "config", "offline"))) =>
            IF mac_address_exists(dm, a)
            THEN /\ dm'.ESP32s = WithOnline(dm, a, FALSE)
                 /\ Inventory(dm').Shelves = Inventory(dm).Shelves
                 /\ dm'.disk = Inventory(dm')
            ELSE dm' = dm]_vars

\* m1 registered after start-up, was bound to a Shelf and is offline again;
\* m2 has never been registered
C17_Witness ==
    /\ Booted
    /\ dm.backup.ESP32s = <<>>
    /\ dm.ESP32s = <<ESP32("m1", TRUE, FALSE)>>
    /\ dm.disk = Inventory(dm)

\* the registry holds address a with isOnline True
Online(S, a) ==
    \E i \in DOMAIN S.ESP32s : S.ESP32s[i].Mac_Address = a /\ S.ESP32s[i].isOnline

\* the addresses and isUsed flags of a registry, in order
UsedFlags(es) == [i \in DOMAIN es |-> <<es[i].Mac_Address, es[i].isUsed>>]

\* C18: the start-up from an existing file leaves every ESP32 with isOnline
\* False, whatever the file said, and the addresses, isUsed flags, Shelves and
\* Positions as the file had them; after start-up a step makes an ESP32
\* online only if it is the registration of its address.
C18_OfflineAtStartup ==
    [][/\ (Startup /\ dm.disk # NoObj) =>
              /\ \A i \in DOMAIN dm'.ESP32s : ~dm'.ESP32s[i].isOnline
              /\ UsedFlags(dm'.ESP32s) = UsedFlags(dm.disk.ESP32s)
              /\ Inventory(dm').Shelves = dm.disk.Shelves
       /\ \A a \in Macs :
              (Booted /\ ~Online(dm, a) /\ Online(dm', a)) => receive_register(a)]_vars

\* the start-up loaded two devices and the Shelf of m1 with its Position (the
\* backup written by the start-up shows them, all offline); since then m1
\* has registered and is online, m2 has not and is still offline
C18_Witness ==
    /\ Booted
    /\ dm.backup = [ESP32s |-> <<ESP32("m1", TRUE, FALSE), ESP32("m2", FALSE, FALSE)>>,
                    Shelves |-> <<Shelf(1, "m1", <<ShelfPosition(1, 0, <<1>>)>>)>>]
    /\ dm.ESP32s = <<ESP32("m1", TRUE, TRUE), ESP32("m2", FALSE, FALSE)>>
    /\ Inventory(dm).Shelves = dm.backup.Shelves

\* the registry: the one in memory, before start-up the one of the main file
Registry ==
    IF Booted THEN dm.ESP32s ELSE IF dm.disk = NoObj THEN <<>> ELSE dm.disk.ESP32s

\* C19: no step, the start-up included, takes an address out of the registry,
\* and no two entries of the registry have the same Mac_Address.
C19_RegistryGrows ==
    /\ [](\A i, j \in DOMAIN Registry :
              Registry[i].Mac_Address = Registry[j].Mac_Address => i = j)
    /\ [][{Registry[i].Mac_Address : i \in DOMAIN Registry}
              \subseteq {Registry'[i].Mac_Address : i \in DOMAIN Registry'}]_vars

\* m1 was loaded at start-up with its Shelf; the Shelf has been deleted, both
\* devices have sent registrations and offline notices since, m2 for the
\* first time after start-up, and the registry holds each of them once
C19_Witness ==
    /\ Booted
    /\ dm.backup.ESP32s = <<ESP32("m1", TRUE, FALSE)>>
    /\ dm.Shelves = <<>>
    /\ \E t \in Threads : pc[t] = "done" /\ resp[t] = Response(HTTP_200_OK, "shelf deleted")
    /\ dm.ESP32s = <<ESP32("m1", FALSE, TRUE), ESP32("m2", FALSE, FALSE)>>

\* the reply class of a command's topic
ClassOf(m) == IF m.topic[3] = "light" THEN "light_ack" ELSE "config_ack"

\* C20: the ACK a device sends for a command is appended to the queue of the
\* command's class and the queue of the other class stays as it was; and
\* publish_with_ack leaves its waiting loop for status 200 only with the ACK
\* of its address and id in the queue of its own class.
C20_ClassesIndependent ==
    [][/\ \A m \in awaited \cup late :
              (DeviceAck(m) \/ DeviceAckLate(m)) =>
                  \A q \in Classes :
                      queue'[q] = IF q = ClassOf(m)
                                  THEN Append(queue[q], ACK(m.topic[2], m.payload[1]))
                                  ELSE queue[q]
       /\ \A t \in Threads :
              (pc[t] = "wait" /\ pc'[t] = "found") =>
                  outgoing_ack(t) \in Range(queue[loc[t].select_queue])]_vars

\* a light and a config exchange with the same address and the same id are
\* outstanding at once: the light ACK has come and ended the wait of the light
\* exchange, the config exchange still waits, nothing delivered to it
C20_Witness ==
    \E t, u \in Threads :
        /\ pc[t] = "found" /\ loc[t].select_queue = "light_ack"
        /\ pc[u] = "wait" /\ loc[u].select_queue = "config_ack"
        /\ outgoing_ack(t) = outgoing_ack(u)
        /\ queue["light_ack"] = <<outgoing_ack(t)>>
        /\ queue["config_ack"] = <<>>
        /\ ~hist[u].delivered
        /\ \E m \in awaited : m.by = u

\* the waiting loop of thread t finds its ACK: publish_with_ack is about to
\* return 200
Matched(t) ==
    pc[t] = "wait" /\ outgoing_ack(t) \in Range(queue[loc[t].select_queue])

\* C21: the ACK of a command whose sender has returned 504 makes no waiting
\* publish_with_ack find its ACK.
C21_LateAckNoOp ==
    [][\A m \in late :
        DeviceAckLate(m) => \A t \in Threads : Matched(t)' => Matched(t)]_vars

\* C22: an ACK of its address, id and class that came in after thread t
\* published, be it before the first test of its waiting loop, is found by
\* that loop: the next step of t ends the wait for status 200.
C22_EarlyAckKept ==
    [][\A t \in Threads :
        (Step(t) /\ pc[t] = "wait" /\ hist[t].delivered) => pc'[t] = "found"]_vars

\* thread t publishes in this step: it begins to wait
Publishes(t) == pc[t] # "wait" /\ pc'[t] = "wait"

\* C23: the step in which publish_with_ack begins to wait publishes one
\* message, on the topic it was given, made of the id it waits for followed by
\* the payload it was given; no other step of a handler, the return with 504
\* included, publishes.
C23_OnePublish ==
    [][/\ \A t \in Threads :
              Publishes(t) =>
                  awaited' \ awaited =
                      {[topic |-> loc'[t].topic,
                        payload |-> <<outgoing_ack(t)'.ACK_id>> \o loc'[t].payload,
                        by |-> t]}
       /\ (\A t \in Threads : ~Publishes(t)) => awaited' \subseteq awaited]_vars

\* an updatePosition of two LEDs waits, its one message being the id, the
\* PositionId and the LEDs in order; the other thread has returned 504 and
\* left no message of its own
C23_Witness ==
    \E t, u \in Threads :
        /\ pc[t] = "wait" /\ req[t].op = "updatePosition"
        /\ awaited = {[topic |-> Topic("m1", "config", "update_Position"),
                       payload |-> <<loc[t].ack_id, req[t].shelf_position.PositionId,
                                     1, MaxLed>>,
                       by |-> t]}
        /\ pc[u] = "done" /\ hist[u].status = HTTP_504_GATEWAY_TIMEOUT

WellFormed(string) ==
    Len(string) = 7 /\ string[1] = "#" /\ \A i \in 2..7 : IsHexChar(string[i])

\* the value of a hexadecimal digit of either case
HexValue(c) ==
    IF c \in Range(LowerHex)
    THEN 9 + CHOOSE k \in DOMAIN LowerHex : LowerHex[k] = c
    ELSE (CHOOSE k \in DOMAIN HexDigits : HexDigits[k] = c) - 1

\* C25: color_string_to_byte_array, applied to the Color of a setLEDs
\* request, gives the bytes R, G, B when the string is '#' and six
\* hexadecimal digits, and None for every other string; a request whose Color
\* is any other string publishes nothing.
C25_ColorFormat ==
    \A t \in Threads :
        req[t].op = "setLEDs" =>
            LET c == req[t].conf.Color
                r == color_string_to_byte_array(c)
            IN  /\ IF WellFormed(c)
                   THEN r = [i \in 1..3 |-> 16 * HexValue(c[2 * i]) + HexValue(c[2 * i + 1])]
                   ELSE r = <<>>
                /\ pc[t] \in {"draw", "wait", "found"} => WellFormed(c)

\* a PositionId or an LED of the request is no byte
OutOfRange(sp) ==
    \/ sp.PositionId < 0 \/ sp.PositionId > BYTE_MAX
    \/ ~IsByteList(sp.LEDs)

\* C26: a createPosition or updatePosition whose PositionId or one of whose
\* LEDs is outside 0..255 is answered in the step that receives it, with
\* status 400, 404 or 406, nothing published and the inventory as it was.
C26_RangeValidated ==
    [][\A t \in Threads :
        (/\ Step(t) /\ pc[t] = "idle"
         /\ req'[t].op \in {"createPosition", "updatePosition"}
         /\ OutOfRange(req'[t].shelf_position)) =>
            /\ pc'[t] = "done"
            /\ resp'[t].status_code \in
                   {HTTP_400_BAD_REQUEST, HTTP_404_NOT_FOUND, HTTP_406_NOT_ACCEPTABLE}
            /\ awaited' = awaited
            /\ Inventory(dm') = Inventory(dm)]_vars

\* C27: a createPosition or updatePosition with an empty LEDs list is
\* answered in the step that receives it, a validation failure, and
\* publishes nothing.
C27_EmptyLedsRejected ==
    [][\A t \in Threads :
        (/\ Step(t) /\ pc[t] = "idle"
         /\ req'[t].op \in {"createPosition", "updatePosition"}
         /\ req'[t].shelf_position.LEDs = <<>>) =>
            /\ pc'[t] = "done"
            /\ resp'[t].status_code \in
                   {HTTP_400_BAD_REQUEST, HTTP_404_NOT_FOUND, HTTP_406_NOT_ACCEPTABLE}
            /\ awaited' = awaited]_vars

\* C28: in every Shelf of the database no two Positions have the same
\* PositionId, and every PositionId is in 0..255.
C28_PositionIds ==
    \A i \in DOMAIN dm.Shelves :
        LET positions == dm.heap[dm.Shelves[i]].Positions
        IN  /\ \A k \in DOMAIN positions :
                   positions[k].PositionId >= 0 /\ positions[k].PositionId <= BYTE_MAX
            /\ \A k, l \in DOMAIN positions :
                   positions[k].PositionId = positions[l].PositionId => k = l

\* getESP32(mac, n) may proceed: mac is registered and Shelf n is bound to
\* mac, or there is no Shelf n and mac is bound to no Shelf
MayGet(mac, n) ==
    /\ mac_address_exists(dm, mac)
    /\ \/ get_mac_address_by_shelf_number(dm, n) = mac
       \/ ~shelf_exists(dm, n) /\ ~shelf_exists_by_mac_address(dm, mac)

\* C29: the step that receives getESP32(mac, n) creates or recreates Shelf n
\* bound to mac and goes on to send the dump request when the request may
\* proceed; otherwise it answers with an error, publishes nothing and leaves
\* the inventory as it was.
C29_GetESP32Guard ==
    [][\A t \in Threads :
        (Step(t) /\ pc[t] = "idle" /\ req'[t].op = "getESP32") =>
            IF MayGet(req'[t].Mac_Address, req'[t].ShelfNumber)
            THEN /\ pc'[t] \in {"draw", "wait"}
                 /\ get_mac_address_by_shelf_number(dm', req'[t].ShelfNumber)
                        = req'[t].Mac_Address
                 /\ get_positions_by_shelf_number(dm', req'[t].ShelfNumber) = <<>>
            ELSE /\ pc'[t] = "done"
                 /\ resp'[t].status_code \in {HTTP_400_BAD_REQUEST, HTTP_404_NOT_FOUND}
                 /\ awaited' = awaited
                 /\ Inventory(dm') = Inventory(dm)]_vars

\* C30: a dump message of a device bound to a Shelf appends the Position
\* (first byte the PositionId, the other bytes the LEDs) to that Shelf and
\* writes the main file when the Shelf has no Position of that PositionId,
\* the message has LEDs and the Shelf uses none of them; any other dump
\* message changes nothing.
C30_DumpCreates ==
    [][\A payload \in RangeDumps :
        config_put(Topic("m1", "config", "put"), payload) =>
            LET shelf == get_shelf_by_mac_address(dm, "m1")
                positions == dm.heap[shelf].Positions
                leds == Tail(payload)
            IN  IF /\ shelf # None
                   /\ \A k \in DOMAIN positions :
                          /\ positions[k].PositionId # payload[1]
                          /\ Range(positions[k].LEDs) \cap Range(leds) = {}
                   /\ leds # <<>>
                THEN /\ dm'.Shelves = dm.Shelves /\ dm'.ESP32s = dm.ESP32s
                     /\ dm'.heap = [dm.heap EXCEPT ![shelf].Positions =
                            Append(@, ShelfPosition(dm.heap[shelf].ShelfNumber,
                                                    payload[1], leds))]
                     /\ dm'.disk = Inventory(dm')
                ELSE dm' = dm]_vars

\* thread u created Shelf 1 empty and thread t had it recreated by getESP32;
\* both have answered and not returned, so the two Positions of the Shelf came
\* by dump messages: <<0, 1>> and <<BYTE_MAX, BYTE_MAX>> were added, which
\* leaves <<0, BYTE_MAX>> (PositionId and LED taken) and <<BYTE_MAX>> (no
\* LEDs) to be skipped
C30_Witness ==
    \E t, u \in Threads :
        /\ pc[u] = "done" /\ req[u].op = "createShelf" /\ req[u].shelf.Positions = <<>>
        /\ resp[u] = Response(HTTP_200_OK, "created")
        /\ pc[t] = "done" /\ req[t].op = "getESP32" /\ hist[t].status = HTTP_200_OK
        /\ get_positions_by_shelf_number(dm, 1) =
               <<ShelfPosition(1, 0, <<1>>), ShelfPosition(1, BYTE_MAX, <<BYTE_MAX>>)>>
        /\ dm.disk = Inventory(dm)

\* the LEDs held by the Positions of the Shelf other than the one addressed
OtherLeds(S, sp) ==
    UNION {Range(q.LEDs) :
           q \in {p \in Range(get_positions_by_shelf_number(S, sp.ShelfNumber)) :
                      p.PositionId # sp.PositionId}}

Updatable(S, sp) ==
    /\ shelf_exists(S, sp.ShelfNumber)
    /\ position_id_exists(S, sp.ShelfNumber, sp.PositionId)
    /\ validate_shelf(sp) = HTTP_200_OK
    /\ sp.LEDs # <<>>

\* C31: an update of an existing Position passes the exclusivity check, when
\* the request is validated and again when it is committed, exactly if the new
\* LEDs share nothing with the other Positions of the Shelf; the LEDs the
\* Position holds itself never count.
C31_ExclusiveOfOthers ==
    [][\A t \in Threads : \A sp \in UpdateRequests :
          /\ (update_position_route(t, sp) /\ Updatable(dm, sp))
                 => ((pc'[t] # "done") <=> (Range(sp.LEDs) \cap OtherLeds(dm, sp) = {}))
          /\ (Acked(t) /\ req[t].op = "updatePosition" /\ req[t].shelf_position = sp
                        /\ Updatable(dm, sp))
                 => ((resp'[t].status_code = HTTP_200_OK)
                        <=> (Range(sp.LEDs) \cap OtherLeds(dm, sp) = {}))]_vars

\* an acknowledged update about to be committed whose LEDs overlap the LEDs
\* the Position holds and nothing else
C31_Witness ==
    \E t \in Threads :
        /\ pc[t] = "found" /\ req[t].op = "updatePosition"
        /\ Updatable(dm, req[t].shelf_position)
        /\ Range(req[t].shelf_position.LEDs) \cap OtherLeds(dm, req[t].shelf_position) = {}
        /\ Range(req[t].shelf_position.LEDs) \cap
               Range(get_leds_by_shelf_number_and_position_id(
                         dm, req[t].shelf_position.ShelfNumber,
                         req[t].shelf_position.PositionId)) # {}

\* worker thread t is inside publish_with_ack
Calling(t) == pc[t] \in {"draw", "wait", "found"}

\* C32: every call of publish_with_ack returns in the end, with 200 or with
\* 504, whatever ACKs the queue holds.
C32_CallReturns ==
    \A t \in Threads :
        Calling(t) ~> (pc[t] = "done" /\ hist[t].status \in {HTTP_200_OK, HTTP_504_GATEWAY_TIMEOUT})

\* every call of publish_with_ack ends, by a return or by an exception
C32_CallEnds == \A t \in Threads : Calling(t) ~> ~Calling(t)

\* C33: an ACK in the queue is consumed by one call: a call that has found its
\* ACK removes that entry, which never fails, and returns 200, and each return
\* of 200 takes one entry out of the queue, so that no second call returns on it.
C33_OneReturnPerAck ==
    [][\A t \in Threads :
          /\ (pc[t] = "found" /\ Step(t))
                 => /\ outgoing_ack(t) \in Range(queue[loc[t].select_queue])
                    /\ hist'[t].status = HTTP_200_OK
          /\ (Step(t) /\ hist'[t].status = HTTP_200_OK)
                 => queue' = [queue EXCEPT ![loc[t].select_queue] =
                                  ListRemove(@, outgoing_ack(t))]]_vars

\* the Positions of the Shelf the database stores under the number
Stored(S, n) == Range(get_positions_by_shelf_number(S, n))

\* C34: whenever add_position, update_position or delete_position returns True
\* (the route answers 200) the change is in the Shelf the database stores under
\* that ShelfNumber at that moment, also when that Shelf was deleted and created
\* again while the handler waited.
C34_CommittedToStoredShelf ==
    [][\A t \in Threads :
        (Acked(t) /\ req[t].op \in PositionOps /\ After200(t).resp.status_code = HTTP_200_OK) =>
            LET sp == req[t].shelf_position
            IN  /\ shelf_exists(dm', sp.ShelfNumber)
                /\ req[t].op \in {"createPosition", "updatePosition"} =>
                       \E q \in Stored(dm', sp.ShelfNumber) :
                           q.PositionId = sp.PositionId /\ q.LEDs = sp.LEDs
                /\ req[t].op = "deletePosition" =>
                       \A q \in Stored(dm', sp.ShelfNumber) :
                           q.PositionId # sp.PositionId]_vars

ColorBytes(c) == [i \in 1..3 |-> 16 * HexValue(c[2 * i]) + HexValue(c[2 * i + 1])]

\* the LEDs the inventory holds for the Position, in the order it holds them
StoredLeds(S, n, p) ==
    LET o == get_shelf_by_shelf_number(S, n)
        Is(q) == q.PositionId = p
    IN  S.heap[o].Positions[FirstIndex(S.heap[o].Positions, Is)].LEDs

\* the message thread t publishes in this step, if it publishes
Sent(t) == {[topic |-> m.topic, payload |-> Tail(m.payload)] : m \in (awaited' \ awaited)}

\* C36: turnOn publishes only for a Shelf that exists, a PositionId in 0..255,
\* a Position that exists and a colour that is valid, and what it publishes on
\* light/set is, behind the id, the stored LEDs of the Position in their order
\* and then R, G, B; turnOff publishes the stored LEDs alone on light/unset.
C36_TurnOnOff ==
    [][\A t \in Threads :
        (pc[t] = "idle" /\ pc'[t] = "wait" /\ req'[t].op \in {"turnOn", "turnOff"}) =>
            LET conf == req'[t].conf
                mac == get_mac_address_by_shelf_number(dm, conf.ShelfNumber)
            IN  /\ shelf_exists(dm, conf.ShelfNumber)
                /\ conf.PositionId \in 0..BYTE_MAX
                /\ position_id_exists(dm, conf.ShelfNumber, conf.PositionId)
                /\ req'[t].op = "turnOn" =>
                       /\ WellFormed(conf.Color)
                       /\ Sent(t) = {[topic |-> Topic(mac, "light", "set"),
                                      payload |-> StoredLeds(dm, conf.ShelfNumber,
                                                             conf.PositionId)
                                                  \o ColorBytes(conf.Color)]}
                /\ req'[t].op = "turnOff" =>
                       Sent(t) = {[topic |-> Topic(mac, "light", "unset"),
                                   payload |-> StoredLeds(dm, conf.ShelfNumber,
                                                          conf.PositionId)]}]_vars

LightOps ==
    {"turnOn", "turnOff", "turnOnAll", "turnOffAll", "setLEDs", "unsetLEDs",
     "resetESP32", "loadESP32"}

\* C37: no step of turnOn, turnOff, turnOnAll, turnOffAll, setLEDs, unsetLEDs,
\* resetESP32 or loadESP32 (the rejection, the publish, the return after an
\* ACK or after a timeout) changes the inventory or the main file.
C37_LightFrame ==
    [][\A t \in Threads :
        ((pc'[t] # pc[t] \/ loc'[t] # loc[t])
            /\ (req[t].op \in LightOps \/ (pc[t] = "idle" /\ req'[t].op \in LightOps)))
        => /\ Inventory(dm') = Inventory(dm)
           /\ dm'.disk = dm.disk]_vars

\* Shelf 1 holds its two Positions; one thread has turned Position 0 on and got
\* the ACK, the other has loaded the Shelf with a timeout
C37_Witness ==
    \E t, u \in Threads :
        /\ pc[t] = "done" /\ req[t].op = "turnOn" /\ hist[t].status = HTTP_200_OK
        /\ pc[u] = "done" /\ req[u].op = "loadESP32" /\ resp[u].msg = "timeout"
        /\ Len(get_positions_by_shelf_number(dm, 1)) = 2
        /\ IsUsed(dm, "m1")

\* the Position the loop of loadESP32 in thread t is at after this step
LoadTurn(t) == dm.heap[loc'[t].shelf].Positions[loc'[t].index]

\* C38: loadESP32 publishes one update_Position exchange for each stored
\* Position, in stored order, the next one when the one before has returned,
\* also after a timeout; it answers when the last has returned, with 504 if
\* one of them timed out and with 200 if all were acknowledged.
C38_LoadInOrder ==
    [][\A t \in Threads :
          \* a turn of the loop: the next Position, one message
          /\ (pc'[t] = "wait" /\ loc'[t] # loc[t] /\ req'[t].op = "loadESP32")
                 => /\ pc[t] \in {"idle", "wait", "found"}
                    /\ loc'[t].index = loc[t].index + 1
                    /\ loc'[t].shelf = get_shelf_by_shelf_number(dm, req'[t].ShelfNumber)
                    /\ Sent(t) = {[topic |-> Topic(dm.heap[loc'[t].shelf].Mac_Address,
                                                   "config", "update_Position"),
                                   payload |-> <<LoadTurn(t).PositionId>> \o LoadTurn(t).LEDs]}
                    /\ Own(t)' \subseteq awaited' \ awaited
          \* a call that returned is followed by the next turn or by the answer
          /\ (req[t].op = "loadESP32" /\ pc[t] \in {"wait", "found"} /\ loc'[t] # loc[t])
                 => IF loc[t].index < Len(dm.heap[loc[t].shelf].Positions)
                    THEN pc'[t] = "wait"
                    ELSE /\ pc'[t] = "done"
                         /\ resp'[t].status_code =
                                IF loc[t].timeout_happened \/ pc[t] = "wait"
                                THEN HTTP_504_GATEWAY_TIMEOUT ELSE HTTP_200_OK
          /\ (req[t].op = "loadESP32" /\ pc[t] = "wait" /\ pc'[t] = "wait"
                                     /\ loc'[t] # loc[t])
                 => loc'[t].timeout_happened
          /\ (req[t].op = "loadESP32" /\ pc[t] = "found" /\ pc'[t] = "wait")
                 => loc'[t].timeout_happened = loc[t].timeout_happened]_vars

\* C39: a call of publish_with_ack with a select_queue that is neither
\* "light_ack" nor "config_ack" raises: it draws no id and publishes nothing,
\* the caller is answered with the error, and both queues stay as they are.
C39_UnknownQueueRaises ==
    /\ [](\A t \in Threads :
             (req[t].op = "publish_with_ack" /\ req[t].select_queue \notin Classes)
                 => /\ pc[t] \in {"raise", "done"}
                    /\ Own(t) = {}
                    /\ pc[t] = "done"
                           => resp[t] = Response(HTTP_500_INTERNAL_SERVER_ERROR, "exception"))
    /\ [][\A t \in Threads :
             (Step(t) /\ req'[t].op = "publish_with_ack"
                      /\ req'[t].select_queue \notin Classes)
                 => /\ queue' = queue
                    /\ awaited' = awaited
                    /\ loc'[t].ack_id = NoLoc.ack_id]_vars

\* a call with the queue name "other_ack" has raised while an ACK of the
\* other thread's call lay in the config queue
C39_Witness ==
    \E t \in Threads :
        /\ pc[t] = "done" /\ req[t].op = "publish_with_ack"
        /\ req[t].select_queue = "other_ack"
        /\ resp[t] = Response(HTTP_500_INTERNAL_SERVER_ERROR, "exception")
        /\ queue["config_ack"] # <<>>

====
